---- MODULE Spec2Model ----
(***************************************************************************)
(* Backgammon engine of B351FinalProject: the numpy board (game/board.py), *)
(* the game state (game/state.py), move generation and application        *)
(* (game/rules.py) and the turn driver (game/game_loop.py).               *)
(***************************************************************************)
EXTENDS Integers, Sequences, FiniteSets, TLC

(* ---------------------------------------------------------------- *)
(* board.py: constants and Board                                     *)
(* ---------------------------------------------------------------- *)

PLAYER_1 == 1

PLAYER_2 == -1

N_POINTS == 24

N_CHECKERS_PER_PLAYER == 15

\* Python's None for from_point (bar), to_point (bear off), hit_index (no hit)
None == -1

\* the value an operation yields when it raises ValueError
ValueError == [error |-> "ValueError"]

IsError(x) == DOMAIN x = {"error"}

Points == 0 .. (N_POINTS - 1)

Abs(x) == IF x < 0 THEN -x ELSE x

player_index(player) == IF player = PLAYER_1 THEN 0 ELSE 1

other_player(player) == IF player = PLAYER_2 THEN PLAYER_1 ELSE PLAYER_2

owner_of_point(board, index) ==
    IF board.points[index] > 0 THEN PLAYER_1
    ELSE IF board.points[index] < 0 THEN PLAYER_2
    ELSE 0

count_on_point(board, index) == Abs(board.points[index])

RECURSIVE SumAbs(_, _)
\* sum of |pts[i]| over the indices i in S
SumAbs(pts, S) ==
    IF S = {} THEN 0
    ELSE LET i == CHOOSE j \in S : TRUE IN Abs(pts[i]) + SumAbs(pts, S \ {i})

\* np.sum(points[points * player > 0] * player) + bar + borne_off
total_checkers_for(board, player) ==
    SumAbs(board.points, {i \in Points : board.points[i] * player > 0})
    + board.bar[player_index(player)]
    + board.borne_off[player_index(player)]

\* a slip: the source is not tested before a checker is taken from it
move_checker_unchecked(board, player, from_idx, to_idx) ==
    LET p_idx == player_index(player)
        removed == IF from_idx = None
                   THEN [board EXCEPT !.bar[p_idx] = @ - 1]
                   ELSE [board EXCEPT !.points[from_idx] = @ - player]
    IN  IF to_idx = None
        THEN [removed EXCEPT !.borne_off[p_idx] = @ + 1]
        ELSE [removed EXCEPT !.points[to_idx] = @ + player]

\* a slip: the checker is added to the destination but not removed from a
\* source point
move_checker_keeps_source(board, player, from_idx, to_idx) ==
    LET p_idx == player_index(player)
        bad == IF from_idx = None
               THEN board.bar[p_idx] <= 0
               ELSE owner_of_point(board, from_idx) # player
        removed == IF from_idx = None
                   THEN [board EXCEPT !.bar[p_idx] = @ - 1]
                   ELSE board
    IN  IF bad THEN ValueError
        ELSE IF to_idx = None
             THEN [removed EXCEPT !.borne_off[p_idx] = @ + 1]
             ELSE [removed EXCEPT !.points[to_idx] = @ + player]

\* a slip: bearing off lowers the borne-off count
move_checker_counts_down(board, player, from_idx, to_idx) ==
    LET p_idx == player_index(player)
        bad == IF from_idx = None
               THEN board.bar[p_idx] <= 0
               ELSE owner_of_point(board, from_idx) # player
        removed == IF from_idx = None
                   THEN [board EXCEPT !.bar[p_idx] = @ - 1]
                   ELSE [board EXCEPT !.points[from_idx] = @ - player]
    IN  IF bad THEN ValueError
        ELSE IF to_idx = None
             THEN [removed EXCEPT !.borne_off[p_idx] = @ - 1]
             ELSE [removed EXCEPT !.points[to_idx] = @ + player]

\* Board.move_checker: ValueError when the source holds no checker of player
move_checker(board, player, from_idx, to_idx) ==
    LET p_idx == player_index(player)
        bad == IF from_idx = None
               THEN board.bar[p_idx] <= 0
               ELSE owner_of_point(board, from_idx) # player
        removed == IF from_idx = None
                   THEN [board EXCEPT !.bar[p_idx] = @ - 1]
                   ELSE [board EXCEPT !.points[from_idx] = @ - player]
    IN  IF bad THEN ValueError
        ELSE IF to_idx = None
             THEN [removed EXCEPT !.borne_off[p_idx] = @ + 1]
             ELSE [removed EXCEPT !.points[to_idx] = @ + player]

\* a slip: the hit checker leaves the point but never reaches the bar
hit_checker_at_no_bar(board, victim_player, index) ==
    IF owner_of_point(board, index) # victim_player THEN ValueError
    ELSE [board EXCEPT !.points[index] = @ + (-victim_player)]

\* Board.hit_checker_at: ValueError when the point is not the victim's
hit_checker_at(board, victim_player, index) ==
    IF owner_of_point(board, index) # victim_player THEN ValueError
    ELSE [board EXCEPT !.points[index] = @ + (-victim_player),
                       !.bar[player_index(victim_player)] = @ + 1]

InitialPoints ==
    [i \in Points |->
        CASE i = 23 -> 2 * PLAYER_1
          [] i = 12 -> 5 * PLAYER_1
          [] i = 7  -> 3 * PLAYER_1
          [] i = 5  -> 5 * PLAYER_1
          [] i = 0  -> 2 * PLAYER_2
          [] i = 11 -> 5 * PLAYER_2
          [] i = 16 -> 3 * PLAYER_2
          [] i = 18 -> 5 * PLAYER_2
          [] OTHER  -> 0]

BoardInitial ==
    [points |-> InitialPoints, bar |-> [i \in {0, 1} |-> 0],
     borne_off |-> [i \in {0, 1} |-> 0]]

(* ---------------------------------------------------------------- *)
(* state.py: GameState                                               *)
(* ---------------------------------------------------------------- *)

\* GameState.dice = None
NoDice == <<>>

GameState(board, player) ==
    [board |-> board, current_player |-> player, dice |-> NoDice,
     turn_number |-> 0, history |-> <<>>]

GameStateInitial == GameState(BoardInitial, PLAYER_1)

\* a slip: the copy does not carry the dice over
copy_without_dice(state, copy_history) ==
    [state EXCEPT !.dice = NoDice,
                  !.history = IF copy_history THEN state.history ELSE <<>>]

\* GameState.copy(copy_history)
copy(state, copy_history) ==
    [state EXCEPT !.history = IF copy_history THEN state.history ELSE <<>>]

is_game_over(state) ==
    \/ state.board.borne_off[player_index(PLAYER_1)] >= N_CHECKERS_PER_PLAYER
    \/ state.board.borne_off[player_index(PLAYER_2)] >= N_CHECKERS_PER_PLAYER

\* None where winner() returns no Player
NoPlayer == 0

\* a slip: a player with a checker borne off is reported
winner_any_borne_off(state) ==
    IF state.board.borne_off[player_index(PLAYER_1)] > 0 THEN PLAYER_1
    ELSE IF state.board.borne_off[player_index(PLAYER_2)] > 0 THEN PLAYER_2
    ELSE NoPlayer

winner(state) ==
    LET p1_off == state.board.borne_off[player_index(PLAYER_1)]
        p2_off == state.board.borne_off[player_index(PLAYER_2)]
    IN  IF ~is_game_over(state) THEN NoPlayer
        ELSE IF p1_off >= N_CHECKERS_PER_PLAYER /\ p2_off >= N_CHECKERS_PER_PLAYER
        THEN NoPlayer
        ELSE IF p1_off >= N_CHECKERS_PER_PLAYER THEN PLAYER_1
        ELSE IF p2_off >= N_CHECKERS_PER_PLAYER THEN PLAYER_2
        ELSE NoPlayer

set_dice(state, d1, d2) == [state EXCEPT !.dice = <<d1, d2>>]

\* a slip: the dice are not cleared
next_turn_keeps_dice(state) ==
    [state EXCEPT !.current_player = other_player(state.current_player),
                  !.turn_number = @ + 1]

next_turn(state) ==
    [state EXCEPT !.current_player = other_player(state.current_player),
                  !.turn_number = @ + 1,
                  !.dice = NoDice]

record_turn(state, dice, action) ==
    [state EXCEPT !.history =
        Append(@, [turn |-> state.turn_number, player |-> state.current_player,
                   dice |-> dice, action |-> action])]

(* ---------------------------------------------------------------- *)
(* rules.py: geometry                                                *)
(* ---------------------------------------------------------------- *)

Step(from_point, to_point, hit_index) ==
    [from_point |-> from_point, to_point |-> to_point, hit_index |-> hit_index]

direction_for(player) == IF player = PLAYER_1 THEN -1 ELSE 1

home_board_range(player) == IF player = PLAYER_1 THEN 0 .. 5 ELSE 18 .. 23

\* a slip: one index too low for PLAYER_1 (24 - die - 1)
entry_point_off_by_one(player, die) ==
    IF player = PLAYER_1 THEN 24 - die - 1 ELSE die - 1

entry_point_from_bar(player, die) ==
    IF player = PLAYER_1 THEN 24 - die ELSE die - 1

\* a slip: the "idx in home" test is missing, so every owned point counts
all_in_home_counts_all(board, player) ==
    LET total == total_checkers_for(board, player)
        borne == board.borne_off[player_index(player)]
        in_home == SumAbs(board.points,
                          {idx \in Points : owner_of_point(board, idx) = player})
    IN  IF borne = total THEN TRUE
        ELSE in_home + borne = total

all_in_home(board, player) ==
    LET total == total_checkers_for(board, player)
        borne == board.borne_off[player_index(player)]
        \* in_home: the checkers on the points idx with owner player, idx in home
        in_home == SumAbs(board.points,
                          {idx \in Points : /\ owner_of_point(board, idx) = player
                                            /\ idx \in home_board_range(player)})
    IN  IF borne = total THEN TRUE
        ELSE in_home + borne = total

(* ---------------------------------------------------------------- *)
(* rules.py: applying moves                                          *)
(* ---------------------------------------------------------------- *)

\* a slip: the mover's checker is placed before the victim is removed
apply_step_move_first(state, step) ==
    LET new_state == copy(state, FALSE)
        player == new_state.current_player
        victim == IF player = PLAYER_2 THEN PLAYER_1 ELSE PLAYER_2
        moved == move_checker(new_state.board, player, step.from_point,
                              step.to_point)
        afterHit == IF IsError(moved) THEN ValueError
                    ELSE IF step.hit_index # None
                    THEN hit_checker_at(moved, victim, step.hit_index)
                    ELSE moved
    IN  IF IsError(afterHit) THEN ValueError
        ELSE [new_state EXCEPT !.board = afterHit]

\* apply_step: hit first, then move; the new state has an empty history
apply_step(state, step) ==
    LET new_state == copy(state, FALSE)
        player == new_state.current_player
        victim == IF player = PLAYER_2 THEN PLAYER_1 ELSE PLAYER_2
        afterHit == IF step.hit_index # None
                    THEN hit_checker_at(new_state.board, victim, step.hit_index)
                    ELSE new_state.board
        moved == IF IsError(afterHit) THEN ValueError
                 ELSE move_checker(afterHit, player, step.from_point, step.to_point)
    IN  IF IsError(moved) THEN ValueError
        ELSE [new_state EXCEPT !.board = moved]

RECURSIVE ApplySteps(_, _, _)
\* the loop of apply_action from the k-th step on
ApplySteps(state, steps, k) ==
    IF k > Len(steps) THEN state
    ELSE LET nxt == apply_step(state, steps[k])
         IN  IF IsError(nxt) THEN ValueError ELSE ApplySteps(nxt, steps, k + 1)

apply_action(state, action) == ApplySteps(state, action.steps, 1)

(* ---------------------------------------------------------------- *)
(* rules.py: move generation                                         *)
(* ---------------------------------------------------------------- *)

\* a slip: an overshoot bears off without the home and all_in_home tests
BoardMoveAtUngated(board, player, idx, die) ==
    LET target == idx + direction_for(player) * die
    IN  IF target < 0 \/ target >= N_POINTS
        THEN <<Step(idx, None, None)>>
        ELSE LET owner == owner_of_point(board, target)
                 count == count_on_point(board, target)
             IN  IF owner # 0 /\ owner # player /\ count > 1 THEN <<>>
                 ELSE <<Step(idx, target,
                             IF owner # 0 /\ owner # player /\ count = 1
                             THEN target ELSE None)>>

\* a slip: the "2+ opposing checkers" test is missing
BoardMoveAtUnblocked(board, player, idx, die) ==
    LET target == idx + direction_for(player) * die
    IN  IF target < 0 \/ target >= N_POINTS
        THEN IF idx \in home_board_range(player) /\ all_in_home(board, player)
             THEN <<Step(idx, None, None)>>
             ELSE <<>>
        ELSE LET owner == owner_of_point(board, target)
                 count == count_on_point(board, target)
             IN  <<Step(idx, target,
                        IF owner # 0 /\ owner # player /\ count = 1
                        THEN target ELSE None)>>

\* a slip: a move onto a blot is not marked as a hit
BoardMoveAtNoHit(board, player, idx, die) ==
    LET target == idx + direction_for(player) * die
    IN  IF target < 0 \/ target >= N_POINTS
        THEN IF idx \in home_board_range(player) /\ all_in_home(board, player)
             THEN <<Step(idx, None, None)>>
             ELSE <<>>
        ELSE LET owner == owner_of_point(board, target)
                 count == count_on_point(board, target)
             IN  IF owner # 0 /\ owner # player /\ count > 1 THEN <<>>
                 ELSE <<Step(idx, target, None)>>

\* a slip: a checker bears off only with the exact die
BoardMoveAtExactOnly(board, player, idx, die) ==
    LET target == idx + direction_for(player) * die
    IN  IF target < 0 \/ target >= N_POINTS
        THEN IF /\ idx \in home_board_range(player)
                /\ all_in_home(board, player)
                /\ target \in {-1, N_POINTS}
             THEN <<Step(idx, None, None)>>
             ELSE <<>>
        ELSE LET owner == owner_of_point(board, target)
                 count == count_on_point(board, target)
             IN  IF owner # 0 /\ owner # player /\ count > 1 THEN <<>>
                 ELSE <<Step(idx, target,
                             IF owner # 0 /\ owner # player /\ count = 1
                             THEN target ELSE None)>>

\* the step the loop body of single_die_moves appends for an index idx that
\* the player owns, or <<>> when it appends none
BoardMoveAt(board, player, idx, die) ==
    LET target == idx + direction_for(player) * die
    IN  IF target < 0 \/ target >= N_POINTS
        THEN IF idx \in home_board_range(player) /\ all_in_home(board, player)
             THEN <<Step(idx, None, None)>>
             ELSE <<>>
        ELSE LET owner == owner_of_point(board, target)
                 count == count_on_point(board, target)
             IN  IF owner # 0 /\ owner # player /\ count > 1 THEN <<>>
                 ELSE <<Step(idx, target,
                             IF owner # 0 /\ owner # player /\ count = 1
                             THEN target ELSE None)>>

RECURSIVE BoardMoves(_, _, _, _)
\* the moves the loop "for idx in range(N_POINTS)" appends, in order, over the
\* indices in S that it does not skip at "owner_of_point(idx) != player"
BoardMoves(board, player, die, S) ==
    IF S = {} THEN <<>>
    ELSE LET idx == CHOOSE i \in S : \A j \in S : i <= j
         IN  BoardMoveAt(board, player, idx, die)
             \o BoardMoves(board, player, die, S \ {idx})

\* a slip: the bar branch is missing
single_die_moves_ignores_bar(state, die) ==
    BoardMoves(state.board, state.current_player, die,
               {idx \in Points :
                    owner_of_point(state.board, idx) = state.current_player})

\* a slip: a checker enters from the bar onto a blocked point too
single_die_moves_enters_blocked(state, die) ==
    LET board == state.board
        player == state.current_player
    IN  IF board.bar[player_index(player)] > 0
        THEN LET dest == entry_point_from_bar(player, die)
                 owner == owner_of_point(board, dest)
                 count == count_on_point(board, dest)
             IN  <<Step(None, dest,
                        IF owner # 0 /\ owner # player /\ count = 1
                        THEN dest ELSE None)>>
        ELSE BoardMoves(board, player, die,
                        {idx \in Points : owner_of_point(board, idx) = player})

single_die_moves(state, die) ==
    LET board == state.board
        player == state.current_player
    IN  IF board.bar[player_index(player)] > 0
        THEN LET dest == entry_point_from_bar(player, die)
                 owner == owner_of_point(board, dest)
                 count == count_on_point(board, dest)
             IN  IF owner = 0 \/ owner = player \/ (owner # player /\ count = 1)
                 THEN <<Step(None, dest,
                             IF owner # 0 /\ owner # player /\ count = 1
                             THEN dest ELSE None)>>
                 ELSE <<>>
        ELSE BoardMoves(board, player, die,
                        {idx \in Points : owner_of_point(board, idx) = player})

\* available[:i] + available[i+1:]  (i is 1-based here)
RemoveAt(seq, i) == SubSeq(seq, 1, i - 1) \o SubSeq(seq, i + 1, Len(seq))

RECURSIVE _recurse(_, _, _, _)
RECURSIVE RecurseMoves(_, _, _, _, _, _, _)

\* the inner loop "for step in moves" from the k-th move on, for die available[i]
RecurseMoves(current_state, available, steps_so_far, dice_used, i, moves, k) ==
    IF k > Len(moves) THEN <<>>
    ELSE LET next_state == apply_step(current_state, moves[k])
         IN  IF IsError(next_state) THEN <<ValueError>>
             ELSE _recurse(next_state, RemoveAt(available, i),
                           Append(steps_so_far, moves[k]),
                           Append(dice_used, available[i]))
                  \o RecurseMoves(current_state, available, steps_so_far,
                                  dice_used, i, moves, k + 1)

\* candidates appended by one call of _recurse, in order.  The iteration of
\* "for i, die in enumerate(available)" for index i appends what the iteration
\* for index 1 appended whenever it has the same die and the same remaining
\* dice (every iteration of a double), so that case is evaluated once.
_recurse(current_state, available, steps_so_far, dice_used) ==
    LET n == Len(available)
        byDie == [d \in {available[i] : i \in 1 .. n} |->
                     single_die_moves(current_state, d)]
        moves == [i \in 1 .. n |-> byDie[available[i]]]
        any_move == \E i \in 1 .. n : moves[i] # <<>>
        iter(i) == RecurseMoves(current_state, available, steps_so_far,
                                dice_used, i, moves[i], 1)
        first == iter(1)
        same(i) == /\ available[i] = available[1]
                   /\ RemoveAt(available, i) = RemoveAt(available, 1)
        from[i \in 1 .. (n + 1)] ==
            IF i > n THEN <<>>
            ELSE (IF same(i) THEN first ELSE iter(i)) \o from[i + 1]
    IN  IF any_move THEN from[1]
        ELSE <<[steps |-> steps_so_far, used |-> dice_used]>>

_generate_action_candidates(state, remaining_dice) ==
    _recurse(state, remaining_dice, <<>>, <<>>)

\* a list that stands for an exception raised while it was being built
Raised(cands) == \E i \in 1 .. Len(cands) : IsError(cands[i])

\* max(len(steps) for steps, _used in raw_candidates), 0 when there is none
MaxStepsLen(cands) ==
    LET lens == {Len(cands[i].steps) : i \in 1 .. Len(cands)}
    IN  IF lens = {} THEN 0 ELSE CHOOSE m \in lens : \A k \in lens : k <= m

InSeq(x, seq) == \E i \in 1 .. Len(seq) : seq[i] = x

\* a slip: the actions are not deduplicated
UniqueActionsKeepAll(best, lo, hi) ==
    [i \in 1 .. (hi - lo + 1) |-> [steps |-> best[lo + i - 1].steps]]

RECURSIVE UniqueActions(_, _, _)
\* the keys of the insertion-ordered dict built from best_sequences[lo..hi]:
\* each distinct Action once, in order of first occurrence
UniqueActions(best, lo, hi) ==
    IF lo > hi THEN <<>>
    ELSE IF lo = hi THEN <<[steps |-> best[lo].steps]>>
    ELSE LET mid == (lo + hi) \div 2
             first == UniqueActions(best, lo, mid)
             rest == UniqueActions(best, mid + 1, hi)
             seen == {first[i] : i \in 1 .. Len(first)}
         IN  first \o SelectSeq(rest, LAMBDA a : a \notin seen)

\* a slip: every terminal sequence is kept, whatever its length
BestSequencesAnyLength(raw_candidates, max_len) == raw_candidates

\* "use as many dice as possible": the sequences with max_len steps
BestSequences(raw_candidates, max_len) ==
    SelectSeq(raw_candidates, LAMBDA c : Len(c.steps) = max_len)

\* a slip: min(d1, d2) instead of max(d1, d2)
PreferLower(best_sequences, max_len, d1, d2) ==
    LET low == IF d1 < d2 THEN d1 ELSE d2
        with_low == SelectSeq(best_sequences, LAMBDA c : InSeq(low, c.used))
    IN  IF max_len = 1 /\ d1 # d2 /\ with_low # <<>>
        THEN with_low ELSE best_sequences

\* a slip: the sequences without the higher die are dropped even when no
\* sequence uses it
PreferHigherOnly(best_sequences, max_len, d1, d2) ==
    LET high == IF d1 > d2 THEN d1 ELSE d2
        with_high == SelectSeq(best_sequences, LAMBDA c : InSeq(high, c.used))
    IN  IF max_len = 1 /\ d1 # d2
        THEN with_high ELSE best_sequences

\* one die played of a non-double roll: prefer the sequences using the higher
PreferHigher(best_sequences, max_len, d1, d2) ==
    LET high == IF d1 > d2 THEN d1 ELSE d2
        with_high == SelectSeq(best_sequences, LAMBDA c : InSeq(high, c.used))
    IN  IF max_len = 1 /\ d1 # d2 /\ with_high # <<>>
        THEN with_high ELSE best_sequences

\* a slip: the "max_len == 0" return is missing
FilterCandidatesKeepEmpty(raw_candidates, d1, d2) ==
    LET max_len == MaxStepsLen(raw_candidates)
        best_sequences ==
            PreferHigher(BestSequences(raw_candidates, max_len), max_len, d1, d2)
    IN  IF raw_candidates = <<>> THEN <<>>
        ELSE UniqueActions(best_sequences, 1, Len(best_sequences))

\* a slip: of the longest sequences, those that play the higher die first
\* are preferred
FilterCandidatesHighFirst(raw_candidates, d1, d2) ==
    LET max_len == MaxStepsLen(raw_candidates)
        high == IF d1 > d2 THEN d1 ELSE d2
        longest == BestSequences(raw_candidates, max_len)
        high_first == SelectSeq(longest, LAMBDA c : c.used[1] = high)
        best_sequences == IF high_first # <<>> THEN high_first ELSE longest
    IN  IF raw_candidates = <<>> THEN <<>>
        ELSE IF max_len = 0 THEN <<>>
        ELSE UniqueActions(best_sequences, 1, Len(best_sequences))

\* legal_actions after the enumeration: the filters and the deduplication
FilterCandidates(raw_candidates, d1, d2) ==
    LET max_len == MaxStepsLen(raw_candidates)
        best_sequences ==
            PreferHigher(BestSequences(raw_candidates, max_len), max_len, d1, d2)
    IN  IF raw_candidates = <<>> THEN <<>>
        ELSE IF max_len = 0 THEN <<>>
        ELSE UniqueActions(best_sequences, 1, Len(best_sequences))

\* legal_actions (the second definition in rules.py, which is the one in
\* force); <<ValueError>> stands for an exception raised by apply_step
legal_actions(state, dice) ==
    LET d1 == dice[1]
        d2 == dice[2]
        remaining_dice == IF d1 = d2 THEN <<d1, d1, d1, d1>> ELSE <<d1, d2>>
        raw_candidates == _generate_action_candidates(state, remaining_dice)
    IN  IF Raised(raw_candidates) THEN <<ValueError>>
        ELSE FilterCandidates(raw_candidates, d1, d2)

(* ---------------------------------------------------------------- *)
(* game_loop.py: RandomAgent and play_turn                           *)
(* ---------------------------------------------------------------- *)

\* the None an agent returns for a forced pass, as stored in the history
NoAction == [none |-> TRUE]

\* RandomAgent.choose_action: the values random.choice can return
RandomAgent_choose_action(state, dice) ==
    LET legal == legal_actions(state, dice)
    IN  IF Raised(legal) THEN {ValueError}
        ELSE IF legal = <<>> THEN {NoAction}
        ELSE {legal[i] : i \in 1 .. Len(legal)}

\* agent.choose_action(state, dice) of an agent that returns None or a legal
\* action: the values it can return
Agent_choose_action(state, dice) ==
    RandomAgent_choose_action(state, dice) \union {NoAction}

\* a slip: the history is not copied over to the state apply_action returned
play_turn_drops_history(state0, chosen, dice) ==
    LET state == set_dice(copy(state0, TRUE), dice[1], dice[2])
    IN  IF IsError(chosen) THEN ValueError
        ELSE IF chosen = NoAction
        THEN next_turn(record_turn(state, dice, NoAction))
        ELSE LET new_state == apply_action(state, chosen)
             IN  IF IsError(new_state) THEN ValueError
                 ELSE next_turn(record_turn(new_state, dice, chosen))

\* play_turn(state, agent, dice) once the agent has returned chosen
play_turn(state0, chosen, dice) ==
    LET state == set_dice(copy(state0, TRUE), dice[1], dice[2])
    IN  IF IsError(chosen) THEN ValueError
        ELSE IF chosen = NoAction
        THEN next_turn(record_turn(state, dice, NoAction))
        ELSE LET new_state == apply_action(state, chosen)
             IN  IF IsError(new_state) THEN ValueError
                 ELSE next_turn(record_turn(
                          [new_state EXCEPT !.history = state.history],
                          dice, chosen))

(* ---------------------------------------------------------------- *)
(* board.py: mirrored_for;  heuristics.py                            *)
(* ---------------------------------------------------------------- *)

\* Board.mirrored_for: PLAYER_2 sees the points flipped and negated, the bar
\* and borne_off counts swapped
\* a slip: the points are flipped but bar and borne_off are not swapped
mirrored_for_keeps_counts(board, player) ==
    IF player = PLAYER_1 THEN board
    ELSE [points |-> [i \in Points |-> -board.points[N_POINTS - 1 - i]],
          bar |-> board.bar, borne_off |-> board.borne_off]

mirrored_for(board, player) ==
    IF player = PLAYER_1 THEN board
    ELSE [points |-> [i \in Points |-> -board.points[N_POINTS - 1 - i]],
          bar |-> [i \in {0, 1} |-> board.bar[1 - i]],
          borne_off |-> [i \in {0, 1} |-> board.borne_off[1 - i]]]

\* a slip: the board is flipped in place
ArgAfter_mirrored_for_in_place(board, player) == mirrored_for(board, player)

\* the board mirrored_for was called on, after the call: self.copy() and
\* np.flip(self.points) * -1, self.bar[::-1].copy() build new arrays
ArgAfter_mirrored_for(board, player) == board

\* scores are kept as integers: ValueScale times the float of the source
ValueScale == 10

\* DEFAULT_WEIGHTS, each weight times ValueScale
DEFAULT_WEIGHTS ==
    [made_point |-> 10, home_made_point |-> 5, blot |-> -10, our_bar |-> -20,
     opp_bar |-> 15, borne_off |-> 20, opp_borne_off |-> -10,
     pip_distance |-> -1]

RECURSIVE PipsUpTo_index(_, _)
\* a slip: a checker on point idx is counted idx pips from bearing off
PipsUpTo_index(pts, n) ==
    IF n < 0 THEN 0
    ELSE (IF pts[n] > 0 THEN pts[n] * n ELSE 0) + PipsUpTo_index(pts, n - 1)

RECURSIVE PipsUpTo(_, _)
\* sum of val * (idx + 1) over the points 0 .. n with val > 0
PipsUpTo(pts, n) ==
    IF n < 0 THEN 0
    ELSE (IF pts[n] > 0 THEN pts[n] * (n + 1) ELSE 0) + PipsUpTo(pts, n - 1)

\* evaluate_board(board, player, weights), times ValueScale
evaluate_board(board, player, weights) ==
    LET b == mirrored_for(board, player)
        me_idx == player_index(PLAYER_1)
        opp_idx == player_index(PLAYER_2)
        home_range == home_board_range(PLAYER_1)
        made_points == Cardinality({idx \in Points : b.points[idx] >= 2})
        home_made_points ==
            Cardinality({idx \in home_range : b.points[idx] >= 2})
        blots == Cardinality({idx \in Points : b.points[idx] = 1})
        our_bar == b.bar[me_idx]
        opp_bar == b.bar[opp_idx]
        our_borne == b.borne_off[me_idx]
        opp_borne == b.borne_off[opp_idx]
        pip_distance == PipsUpTo(b.points, N_POINTS - 1) + our_bar * 25
    IN  weights.made_point * made_points
        + weights.home_made_point * home_made_points
        + weights.blot * blots
        + weights.our_bar * our_bar
        + weights.opp_bar * opp_bar
        + weights.borne_off * our_borne
        + weights.opp_borne_off * opp_borne
        + weights.pip_distance * pip_distance

\* the board evaluate_board was called on, after the call: everything is read
\* from b = board.mirrored_for(player)
ArgAfter_evaluate_board(board, player, weights) ==
    ArgAfter_mirrored_for(board, player)

\* HeuristicWeights(...), each weight times ValueScale
HeuristicWeights(made_point, home_made_point, blot, our_bar, opp_bar, borne_off, opp_borne_off, pip_distance) ==
    [made_point |-> made_point, home_made_point |-> home_made_point,
     blot |-> blot, our_bar |-> our_bar, opp_bar |-> opp_bar,
     borne_off |-> borne_off, opp_borne_off |-> opp_borne_off,
     pip_distance |-> pip_distance]

evaluate_state(state, perspective, weights) ==
    evaluate_board(state.board, perspective, weights)

\* the value an operation yields when it raises OverflowError
OverflowError == [error |-> "OverflowError"]

\* an int weight too large for a float, such as opp_bar=10**400
HugeWeight == 100000000

\* HeuristicWeights(opp_bar=10**400)
HUGE_OPP_BAR_WEIGHTS == [DEFAULT_WEIGHTS EXCEPT !.opp_bar = HugeWeight]

\* score += n, n an int that float(n) cannot hold: "OverflowError: int too
\* large to convert to float".  The product of such a weight with a count
\* other than 0 is as large or larger; with the count 0 it is 0.
TooLarge(n) == Abs(n) >= HugeWeight

\* evaluate_board raises OverflowError at one of its eight additions
evaluate_board_raises(board, player, weights) ==
    LET b == mirrored_for(board, player)
        me_idx == player_index(PLAYER_1)
        opp_idx == player_index(PLAYER_2)
        home_range == home_board_range(PLAYER_1)
        made_points == Cardinality({idx \in Points : b.points[idx] >= 2})
        home_made_points ==
            Cardinality({idx \in home_range : b.points[idx] >= 2})
        blots == Cardinality({idx \in Points : b.points[idx] = 1})
        pip_distance == PipsUpTo(b.points, N_POINTS - 1) + b.bar[me_idx] * 25
    IN  \/ TooLarge(weights.made_point * made_points)
        \/ TooLarge(weights.home_made_point * home_made_points)
        \/ TooLarge(weights.blot * blots)
        \/ TooLarge(weights.our_bar * b.bar[me_idx])
        \/ TooLarge(weights.opp_bar * b.bar[opp_idx])
        \/ TooLarge(weights.borne_off * b.borne_off[me_idx])
        \/ TooLarge(weights.opp_borne_off * b.borne_off[opp_idx])
        \/ TooLarge(weights.pip_distance * pip_distance)

evaluate_state_raises(state, perspective, weights) ==
    evaluate_board_raises(state.board, perspective, weights)

\* the actions of legal with the greatest value: best_actions after the loop
\* of choose_action (values[k] is the value of legal[k])
BestActions(legal, values) ==
    {legal[k] : k \in {j \in 1 .. Len(legal) :
                          \A i \in 1 .. Len(legal) : values[i] <= values[j]}}

\* a slip: the agent picks among the actions of the longest enumeration
\* sequences, whether legal_actions kept them or not
HeuristicAgent_choose_any(state, dice, weights) ==
    LET raw == _generate_action_candidates(
                   state, IF dice[1] = dice[2]
                          THEN <<dice[1], dice[1], dice[1], dice[1]>> ELSE dice)
    IN  {[steps |-> raw[i].steps] : i \in 1 .. Len(raw)}

\* HeuristicAgent.choose_action: the values random.choice can return
HeuristicAgent_choose_action(state, dice, weights) ==
    LET legal == legal_actions(state, dice)
        player == state.current_player
        next_state == [k \in 1 .. Len(legal) |-> apply_action(state, legal[k])]
        values == [k \in 1 .. Len(legal) |->
                      evaluate_state(next_state[k], player, weights)]
    IN  IF Raised(legal) THEN {ValueError}
        ELSE IF legal = <<>> THEN {NoAction}
        ELSE IF \E k \in 1 .. Len(legal) : IsError(next_state[k])
        THEN {ValueError}
        ELSE BestActions(legal, values)

(* ---------------------------------------------------------------- *)
(* expectimax.py                                                     *)
(* ---------------------------------------------------------------- *)

\* float values: a number, float('inf'), float('-inf'), or nan.  A number n
\* stands for the float n / (ValueScale * 36^k), k the chance levels below the
\* node, so that the probabilities 1/36 and 2/36 are the integers 1 and 2.
Num(n) == [num |-> n]

PosInf == [inf |-> 1]

NegInf == [inf |-> -1]

NaN == [nan |-> TRUE]

IsNum(v) == DOMAIN v = {"num"}

\* w * a for a probability weight w > 0
FMul(w, a) == IF IsNum(a) THEN Num(w * a.num) ELSE a

\* a > b
FGt(a, b) ==
    IF a = NaN \/ b = NaN THEN FALSE
    ELSE IF IsNum(a) /\ IsNum(b) THEN a.num > b.num
    ELSE IF IsNum(a) THEN b = NegInf
    ELSE IF IsNum(b) THEN a = PosInf
    ELSE a = PosInf /\ b = NegInf

\* a == b
FEq(a, b) == a # NaN /\ b # NaN /\ a = b

RECURSIVE Pow36(_)
Pow36(k) == IF k <= 0 THEN 1 ELSE 36 * Pow36(k - 1)

\* ExpectimaxConfig()
DefaultConfig == [depth |-> 2, weights |-> DEFAULT_WEIGHTS, use_symmetry |-> TRUE]

\* ExpectimaxConfig(depth=..., weights=..., use_symmetry=...): a dataclass
\* without __post_init__, every value is taken as given
ExpectimaxConfig(depth, weights, use_symmetry) ==
    [depth |-> depth, weights |-> weights, use_symmetry |-> use_symmetry]

\* DICE_OUTCOMES with DICE_PROBABILITY, as <<dice, 36 * probability>>
DICE_OUTCOMES ==
    [k \in 1 .. 36 |-> <<<<((k - 1) \div 6) + 1, ((k - 1) % 6) + 1>>, 1>>]

\* the non-doubles (d1, d2) with d1 < d2, in the order of the two loops
NonDoubles ==
    SelectSeq([k \in 1 .. 36 |-> DICE_OUTCOMES[k][1]], LAMBDA d : d[1] < d[2])

\* a slip: a non-double is weighted like a double
_symmetric_dice_outcomes_unweighted ==
    [d \in 1 .. 6 |-> <<<<d, d>>, 1>>]
    \o [k \in 1 .. Len(NonDoubles) |-> <<NonDoubles[k], 1>>]

\* _symmetric_dice_outcomes: the doubles with 1/36, then the non-doubles
\* d1 < d2 with 2/36
_symmetric_dice_outcomes ==
    [d \in 1 .. 6 |-> <<<<d, d>>, 1>>]
    \o [k \in 1 .. Len(NonDoubles) |-> <<NonDoubles[k], 2>>]

\* v = e followed by code F(v) that uses v is written Only({F(v) : v \in {e}}):
\* e is evaluated once, as the assignment does
Only(S) == CHOOSE r \in S : TRUE

\* the k-th value of a loop whose values are kept as pairs <<k, value>>
At(pairs, k) == (CHOOSE p \in pairs : p[1] = k)[2]

RECURSIVE SumNums(_, _)
SumNums(terms, n) ==
    IF n = 0 THEN 0 ELSE At(terms, n).num + SumNums(terms, n - 1)

\* total after "total = 0.0; for ...: total += term" over the terms <<k, term>>:
\* inf and -inf add up to nan, nan stays nan, inf absorbs every number
FSum(terms) ==
    LET seen == {p[2] : p \in terms}
    IN  IF NaN \in seen \/ (PosInf \in seen /\ NegInf \in seen) THEN NaN
        ELSE IF PosInf \in seen THEN PosInf
        ELSE IF NegInf \in seen THEN NegInf
        ELSE Num(SumNums(terms, Cardinality(terms)))

\* the BASE CASE of _decision_value and _chance_value: evaluate_state from the
\* root player's perspective, k chance levels below the top of the scale;
\* OverflowError when evaluate_state raises
LeafValue(config, state, root_player, k) ==
    IF evaluate_state_raises(state, root_player, config.weights)
    THEN OverflowError
    ELSE Num(evaluate_state(state, root_player, config.weights) * Pow36(k))

RECURSIVE FirstError(_, _)
\* what the first raising iteration of a loop raised, the values being kept as
\* pairs <<k, value>>
FirstError(values, k) ==
    IF IsError(At(values, k)) THEN At(values, k) ELSE FirstError(values, k + 1)

RECURSIVE _decision_value(_, _, _, _, _, _)
RECURSIVE _chance_value(_, _, _, _, _)

\* next_state = rules.apply_action(state, action) and the _chance_value of
\* next_state, as in the loops of choose_action and _decision_value;
\* ValueError when apply_action raises
ActionValue(config, state, action, depth, next_player, root_player) ==
    Only({IF IsError(next_state) THEN ValueError
          ELSE _chance_value(config, next_state, depth, next_player,
                             root_player) :
          next_state \in {apply_action(state, action)}})

RECURSIVE BestIndex_max(_, _, _, _)
\* a slip: the greatest value is kept at every node
BestIndex_max(values, is_max, k, j) ==
    IF k > Cardinality(values) THEN j
    ELSE IF FGt(At(values, k), At(values, j))
    THEN BestIndex_max(values, is_max, k + 1, k)
    ELSE BestIndex_max(values, is_max, k + 1, j)

RECURSIVE BestIndex(_, _, _, _)
\* the loop "for action in legal_actions" of _decision_value from the k-th
\* action on, values[j] being best_value: the index of best_value at its end
BestIndex(values, is_max, k, j) ==
    IF k > Cardinality(values) THEN j
    ELSE IF \/ is_max /\ FGt(At(values, k), At(values, j))
            \/ ~is_max /\ FGt(At(values, j), At(values, k))
    THEN BestIndex(values, is_max, k + 1, k)
    ELSE BestIndex(values, is_max, k + 1, j)

\* the execution of _decision_value as a record: the BASE CASE test, the legal
\* actions, the values of the loop as pairs <<k, value>> and the value
\* returned; an error is returned when legal_actions raises and when the loop
\* is left by the first action that raises
DecisionNode(config, state, depth, current_player, root_player, dice) ==
    IF depth <= 0 \/ is_game_over(state)
    THEN [base |-> TRUE, legal |-> <<>>, values |-> {},
          ret |-> LeafValue(config, state, root_player, depth - 1)]
    ELSE Only({
           IF Raised(legal)
           THEN [base |-> FALSE, legal |-> legal, values |-> {},
                 ret |-> ValueError]
           ELSE IF legal = <<>>
           THEN [base |-> FALSE, legal |-> legal, values |-> {},
                 ret |-> _chance_value(config, state, depth - 1,
                                       other_player(current_player),
                                       root_player)]
           ELSE Only({
                    [base |-> FALSE, legal |-> legal, values |-> values,
                     ret |-> IF \E p \in values : IsError(p[2])
                             THEN FirstError(values, 1)
                             ELSE At(values,
                                     BestIndex(values,
                                               current_player = root_player,
                                               2, 1))] :
                    values \in {{<<k, ActionValue(config, state, legal[k],
                                                  depth - 1,
                                                  other_player(current_player),
                                                  root_player)>> :
                                    k \in 1 .. Len(legal)}}}) :
           legal \in {legal_actions(state, dice)}})

_decision_value(config, state, depth, current_player, root_player, dice) ==
    DecisionNode(config, state, depth, current_player, root_player, dice).ret

\* a slip: the substituted infinities are swapped
ChanceTerm_swapped(config, state, depth, current_player, root_player, outcome) ==
    Only({FMul(outcome[2], IF IsError(got)
                           THEN (IF current_player = root_player
                                 THEN PosInf ELSE NegInf)
                           ELSE got) :
          got \in {_decision_value(config, state, depth, current_player,
                                   root_player, outcome[1])}})

\* prob * value for one dice outcome of _chance_value: value is what
\* _decision_value returns, or -inf / inf when it raises
ChanceTerm(config, state, depth, current_player, root_player, outcome) ==
    Only({FMul(outcome[2], IF IsError(got)
                           THEN (IF current_player = root_player
                                 THEN NegInf ELSE PosInf)
                           ELSE got) :
          got \in {_decision_value(config, state, depth, current_player,
                                   root_player, outcome[1])}})

\* outcomes_with_prob of _chance_value
OutcomesWithProb(config) ==
    IF config.use_symmetry THEN _symmetric_dice_outcomes ELSE DICE_OUTCOMES

\* the execution of _chance_value as a record: the BASE CASE test, the terms
\* prob * value of the loop as pairs <<k, term>> and the total returned
ChanceNode(config, state, depth, current_player, root_player) ==
    IF depth <= 0 \/ is_game_over(state)
    THEN [base |-> TRUE, legal |-> <<>>, values |-> {},
          ret |-> LeafValue(config, state, root_player, depth)]
    ELSE Only({[base |-> FALSE, legal |-> <<>>, values |-> terms,
                ret |-> FSum(terms)] :
               terms \in {{<<k, ChanceTerm(config, state, depth,
                                           current_player, root_player,
                                           OutcomesWithProb(config)[k])>> :
                             k \in 1 .. Len(OutcomesWithProb(config))}}})

_chance_value(config, state, depth, current_player, root_player) ==
    ChanceNode(config, state, depth, current_player, root_player).ret

RECURSIVE ChooseLoop_first(_, _, _, _, _)
\* a slip: an action as good as the best one so far is not added
ChooseLoop_first(values, legal, k, j, best_actions) ==
    IF k > Len(legal) THEN best_actions
    ELSE IF FGt(At(values, k), At(values, j))
    THEN ChooseLoop_first(values, legal, k + 1, k, <<legal[k]>>)
    ELSE ChooseLoop_first(values, legal, k + 1, j, best_actions)

RECURSIVE ChooseLoop(_, _, _, _, _)
\* the loop "for action in legal_actions" of ExpectimaxAgent.choose_action from
\* the k-th action on, values[j] being best_value: best_actions at its end
ChooseLoop(values, legal, k, j, best_actions) ==
    IF k > Len(legal) THEN best_actions
    ELSE IF FGt(At(values, k), At(values, j))
    THEN ChooseLoop(values, legal, k + 1, k, <<legal[k]>>)
    ELSE IF FEq(At(values, k), At(values, j))
    THEN ChooseLoop(values, legal, k + 1, j, Append(best_actions, legal[k]))
    ELSE ChooseLoop(values, legal, k + 1, j, best_actions)

\* the execution of ExpectimaxAgent.choose_action as a record: the legal
\* actions, the values of the loop as pairs <<k, value>> and, as ret, the
\* values random.choice can return
ChooseNode(config, state, dice) ==
    Only({
        IF Raised(legal)
        THEN [base |-> FALSE, legal |-> legal, values |-> {},
              ret |-> {ValueError}]
        ELSE IF legal = <<>>
        THEN [base |-> FALSE, legal |-> legal, values |-> {},
              ret |-> {NoAction}]
        ELSE Only({
                 [base |-> FALSE, legal |-> legal, values |-> values,
                  ret |-> IF \E p \in values : IsError(p[2])
                          THEN {FirstError(values, 1)}
                          ELSE Only({{best_actions[i] :
                                         i \in 1 .. Len(best_actions)} :
                                     best_actions \in
                                         {ChooseLoop(values, legal, 2, 1,
                                                     <<legal[1]>>)}})] :
                 values \in {{<<k, ActionValue(config, state, legal[k],
                                               config.depth - 1,
                                               other_player(state.current_player),
                                               state.current_player)>> :
                                 k \in 1 .. Len(legal)}}}) :
        legal \in {legal_actions(state, dice)}})

\* ExpectimaxAgent.choose_action: the values random.choice can return
ExpectimaxAgent_choose_action(config, state, dice) ==
    ChooseNode(config, state, dice).ret

\* A call of the search as a record: its execution, and its arguments other
\* than `state` with
\*   index   which iteration of the caller's loop made the call
\*   nodes   the decision nodes on the path from the root down to the call

\* ExpectimaxAgent(config).choose_action(state, dice)
RootFrame(config, state, dice) ==
    ChooseNode(config, state, dice)
    @@ [op |-> "choose_action", config |-> config, depth |-> config.depth,
        current_player |-> state.current_player,
        root_player |-> state.current_player, dice |-> dice,
        index |-> 0, nodes |-> 1]

\* self._chance_value(state, depth, current_player, root_player)
ChanceFrame(config, state, depth, current_player, root_player, index, nodes) ==
    ChanceNode(config, state, depth, current_player, root_player)
    @@ [op |-> "_chance_value", config |-> config, depth |-> depth,
        current_player |-> current_player, root_player |-> root_player,
        dice |-> NoDice, index |-> index, nodes |-> nodes]

\* self._decision_value(state, depth, current_player, root_player, dice)
DecisionFrame(config, state, depth, current_player, root_player, dice, index, nodes) ==
    DecisionNode(config, state, depth, current_player, root_player, dice)
    @@ [op |-> "_decision_value", config |-> config, depth |-> depth,
        current_player |-> current_player, root_player |-> root_player,
        dice |-> dice, index |-> index, nodes |-> nodes]

\* a slip: the decision ply is not counted
ChanceCall_same_depth(frame, next_state, index) ==
    ChanceFrame(frame.config, next_state, frame.depth,
                other_player(frame.current_player), frame.root_player,
                index, frame.nodes)

\* the call self._chance_value(state=next_state, depth=depth - 1,
\* current_player=other_player(current_player), root_player=root_player) a
\* decision node (the root included) makes in its index-th iteration
ChanceCall(frame, next_state, index) ==
    ChanceFrame(frame.config, next_state, frame.depth - 1,
                other_player(frame.current_player), frame.root_player,
                index, frame.nodes)

\* the call self._decision_value(state=state, depth=depth,
\* current_player=current_player, root_player=root_player, dice=dice) a
\* chance node makes for its index-th dice outcome
DecisionCall(frame, state, index) ==
    DecisionFrame(frame.config, state, frame.depth, frame.current_player,
                  frame.root_player, OutcomesWithProb(frame.config)[index][1],
                  index, frame.nodes + 1)

(* ---------------------------------------------------------------- *)
(* moves.py: the board of (player, count) tuples                     *)
(* ---------------------------------------------------------------- *)

\* sentinel indices
BAR == -1

BEAR_OFF == 24

\* the owner _get_stack reports for an empty point (Python's None)
NoOwner == "None"

\* a point of the tuple board: (player, count), or None, kept as (None, 0)
EmptyPoint == <<NoOwner, 0>>

Move(from_point, to_point, hit) ==
    [from_point |-> from_point, to_point |-> to_point, hit |-> hit]

_opponent(player) == IF player = "X" THEN "O" ELSE "X"

_direction(player) == IF player = "X" THEN 1 ELSE -1

\* (owner, count) of a point; (None, 0) for an empty one
_get_stack(board, idx) == board.points[idx]

\* the board after _set_stack(board, idx, owner, count)
_set_stack(board, idx, owner, count) ==
    IF owner = NoOwner \/ count <= 0
    THEN [board EXCEPT !.points[idx] = EmptyPoint]
    ELSE [board EXCEPT !.points[idx] = <<owner, count>>]

_in_home_board(idx, player) ==
    IF player = "X" THEN 18 <= idx /\ idx <= 23 ELSE 0 <= idx /\ idx <= 5

_all_checkers_in_home(board, player) ==
    /\ \A i \in 0 .. 23 :
          _get_stack(board, i)[1] = player => _in_home_board(i, player)
    /\ ~(board.bar[player] > 0)

\* the moves legal_moves_for_die appends for the point idx
MovesOfPoint(board, player, die, idx) ==
    LET stack == _get_stack(board, idx)
        dest == idx + _direction(player) * die
    IN  IF stack[1] # player \/ stack[2] = 0 THEN <<>>
        ELSE IF dest < 0 \/ dest > 23
        THEN IF ~_all_checkers_in_home(board, player) THEN <<>>
             ELSE IF _in_home_board(idx, player)
                  THEN <<Move(idx, BEAR_OFF, FALSE)>>
                  ELSE <<>>
        ELSE LET dest_stack == _get_stack(board, dest)
             IN  IF dest_stack[1] = NoOwner \/ dest_stack[1] = player
                 THEN <<Move(idx, dest, FALSE)>>
                 ELSE IF dest_stack[1] = _opponent(player) /\ dest_stack[2] = 1
                 THEN <<Move(idx, dest, TRUE)>>
                 ELSE <<>>

RECURSIVE MovesUpTo(_, _, _, _)
\* "for idx in range(24)": the moves of the points 0 .. n, in that order
MovesUpTo(board, player, die, n) ==
    IF n < 0 THEN <<>>
    ELSE MovesUpTo(board, player, die, n - 1)
         \o MovesOfPoint(board, player, die, n)

\* a slip: a point held by two or more opposing checkers can be entered
legal_moves_for_die_onto_blocked(board, player, die) ==
    IF board.bar[player] > 0
    THEN LET dest == IF player = "X" THEN die - 1 ELSE 24 - die
             stack == _get_stack(board, dest)
         IN  IF stack[1] = NoOwner \/ stack[1] = player
             THEN <<Move(BAR, dest, FALSE)>>
             ELSE <<Move(BAR, dest, TRUE)>>
    ELSE MovesUpTo(board, player, die, 23)

legal_moves_for_die(board, player, die) ==
    IF board.bar[player] > 0
    THEN LET dest == IF player = "X" THEN die - 1 ELSE 24 - die
             stack == _get_stack(board, dest)
         IN  IF stack[1] = NoOwner \/ stack[1] = player
             THEN <<Move(BAR, dest, FALSE)>>
             ELSE IF stack[1] = _opponent(player) /\ stack[2] = 1
             THEN <<Move(BAR, dest, TRUE)>>
             ELSE <<>>
    ELSE MovesUpTo(board, player, die, 23)

\* apply_move_in_place, step 1: the checker is taken from its origin; raised
\* tells of the ValueError, board is the Board object as the call leaves it
RemoveFromOrigin(board, player, move) ==
    IF move.from_point = BAR
    THEN IF board.bar[player] <= 0
         THEN [board |-> board, raised |-> TRUE]
         ELSE [board |-> [board EXCEPT !.bar[player] = @ - 1],
               raised |-> FALSE]
    ELSE LET stack == _get_stack(board, move.from_point)
         IN  IF stack[1] # player \/ stack[2] <= 0
             THEN [board |-> board, raised |-> TRUE]
             ELSE [board |-> _set_stack(board, move.from_point, player,
                                        stack[2] - 1),
                   raised |-> FALSE]

\* a slip: the opposing checker that is hit is not put on the bar
PlaceOnDestination_no_bar(board, player, move) ==
    LET opponent == _opponent(player)
        found == _get_stack(board, move.to_point)
        bad_hit == move.hit /\ (found[1] # opponent \/ found[2] # 1)
        dest == IF move.hit THEN EmptyPoint ELSE found
    IN  IF bad_hit THEN [board |-> board, raised |-> TRUE]
        ELSE IF dest[1] = NoOwner
        THEN [board |-> _set_stack(board, move.to_point, player, 1),
              raised |-> FALSE]
        ELSE IF dest[1] = player
        THEN [board |-> _set_stack(board, move.to_point, player, dest[2] + 1),
              raised |-> FALSE]
        ELSE [board |-> board, raised |-> TRUE]

\* apply_move_in_place, step 3: the destination on the board
PlaceOnDestination(board, player, move) ==
    LET opponent == _opponent(player)
        found == _get_stack(board, move.to_point)
        bad_hit == move.hit /\ (found[1] # opponent \/ found[2] # 1)
        hit_board == IF move.hit
                     THEN [board EXCEPT !.bar[opponent] = @ + 1]
                     ELSE board
        dest == IF move.hit THEN EmptyPoint ELSE found
    IN  IF bad_hit THEN [board |-> board, raised |-> TRUE]
        ELSE IF dest[1] = NoOwner
        THEN [board |-> _set_stack(hit_board, move.to_point, player, 1),
              raised |-> FALSE]
        ELSE IF dest[1] = player
        THEN [board |-> _set_stack(hit_board, move.to_point, player,
                                   dest[2] + 1),
              raised |-> FALSE]
        ELSE [board |-> hit_board, raised |-> TRUE]

\* apply_move_in_place(board, player, move): the Board object after the call
\* and whether ValueError was raised
apply_move_in_place(board, player, move) ==
    LET removed == RemoveFromOrigin(board, player, move)
    IN  IF removed.raised THEN removed
        ELSE IF move.to_point = BEAR_OFF
        THEN [board |-> [removed.board EXCEPT !.borne_off[player] = @ + 1],
              raised |-> FALSE]
        ELSE PlaceOnDestination(removed.board, player, move)

(* ---------------------------------------------------------------- *)
(* Objects: what a call leaves in the GameState object passed to it  *)
(* ---------------------------------------------------------------- *)

\* a slip: the copy shares the board arrays with the original
copy_shares_board(copy_history) == {"self", "history"}

\* GameState.copy: the parts of the copy that are new objects.  The GameState
\* itself is new, Board.copy copies the three arrays, and the history is
\* self.history.copy() or [].
copy_fresh(copy_history) == {"self", "board", "history"}

\* what the caller finds in the object `state` it passed in, when the callee
\* worked on state.copy(copy_history) and left `work` in that copy
CallerSees(state, work, copy_history) ==
    LET fresh == copy_fresh(copy_history)
        own == "self" \in fresh
    IN  [board |-> IF "board" \in fresh THEN state.board ELSE work.board,
         current_player |-> IF own THEN state.current_player
                            ELSE work.current_player,
         dice |-> IF own THEN state.dice ELSE work.dice,
         turn_number |-> IF own THEN state.turn_number ELSE work.turn_number,
         history |-> IF "history" \in fresh THEN state.history
                     ELSE work.history]

\* new_state when apply_step returns or raises: hit_checker_at and
\* move_checker test before they write, so a raise of move_checker leaves the
\* hit done
apply_step_exit(state, step) ==
    LET new_state == copy(state, FALSE)
        player == new_state.current_player
        victim == IF player = PLAYER_2 THEN PLAYER_1 ELSE PLAYER_2
        afterHit == IF step.hit_index # None
                    THEN hit_checker_at(new_state.board, victim, step.hit_index)
                    ELSE new_state.board
        moved == IF IsError(afterHit) THEN ValueError
                 ELSE move_checker(afterHit, player, step.from_point, step.to_point)
    IN  [new_state EXCEPT !.board = IF IsError(afterHit) THEN new_state.board
                                    ELSE IF IsError(moved) THEN afterHit
                                    ELSE moved]

\* the object passed to apply_step, after the call
ArgAfter_apply_step(state, step) ==
    CallerSees(state, apply_step_exit(state, step), FALSE)

RECURSIVE ArgAfterSteps(_, _, _, _)
\* the object passed to apply_action, after the loop from the k-th step on:
\* arg is that object, new_state the state the k-th apply_step copies
ArgAfterSteps(arg, new_state, steps, k) ==
    IF k > Len(steps) THEN arg
    ELSE LET nxt == apply_step(new_state, steps[k])
             seen == CallerSees(arg, apply_step_exit(new_state, steps[k]), FALSE)
         IN  IF IsError(nxt) THEN seen
             ELSE IF seen = arg THEN ArgAfterSteps(arg, nxt, steps, k + 1)
             ELSE ArgAfterSteps(seen, nxt, steps, k + 1)

ArgAfter_apply_action(state, action) ==
    ArgAfterSteps(state, state, action.steps, 1)

RECURSIVE ArgAfterMoves(_, _, _, _)
\* the object passed to _recurse, after apply_step(current_state, step) for the
\* steps moves[k..]; the deeper calls of _recurse work on the copies
ArgAfterMoves(arg, current_state, moves, k) ==
    IF k > Len(moves) THEN arg
    ELSE ArgAfterMoves(
             CallerSees(arg, apply_step_exit(current_state, moves[k]), FALSE),
             current_state, moves, k + 1)

\* the object passed to legal_actions, after the call
ArgAfter_legal_actions(state, dice) ==
    LET d1 == dice[1]
        d2 == dice[2]
        remaining_dice == IF d1 = d2 THEN <<d1, d1, d1, d1>> ELSE <<d1, d2>>
        after[i \in 0 .. Len(remaining_dice)] ==
            IF i = 0 THEN state
            ELSE ArgAfterMoves(after[i - 1], state,
                               single_die_moves(state, remaining_dice[i]), 1)
    IN  after[Len(remaining_dice)]

\* the object an agent was given (arg at the start of the loop), after
\* apply_action(state, action) for every action of legal
ArgAfterActions(arg, state, legal) ==
    LET seen[i \in 0 .. Len(legal)] ==
            IF i = 0 THEN arg
            ELSE ArgAfterSteps(seen[i - 1], state, legal[i].steps, 1)
    IN  seen[Len(legal)]

\* the object passed to play_turn, after the call: play_turn works on
\* state.copy(copy_history=True), sets the dice on it and, on a pass, records
\* and advances the turn on it
ArgAfter_play_turn(state0, chosen, dice) ==
    LET state == set_dice(copy(state0, TRUE), dice[1], dice[2])
        work == IF IsError(chosen) THEN state
                ELSE IF chosen = NoAction
                THEN next_turn(record_turn(state, dice, NoAction))
                ELSE ArgAfter_apply_action(state, chosen)
    IN  CallerSees(state0, work, TRUE)

\* the object passed to an agent's choose_action, after the call: the agent
\* calls legal_actions(state, dice) and apply_action(state, action) for every
\* legal action; the search below works on the states apply_action returned
ArgAfter_choose_action(state, dice) ==
    LET legal == legal_actions(state, dice)
        listed == ArgAfter_legal_actions(state, dice)
    IN  IF Raised(legal) THEN listed
        ELSE ArgAfterActions(listed, state, legal)

(* ---------------------------------------------------------------- *)
(* The state machine                                                 *)
(* ---------------------------------------------------------------- *)

VARIABLES
    points,          \* Board.points of the current GameState
    bar,             \* Board.bar
    borne_off,       \* Board.borne_off
    current_player,  \* GameState.current_player
    dice,            \* GameState.dice
    turn_number,     \* GameState.turn_number
    history,         \* GameState.history
    call             \* the last call made on the state: name, inputs, result

vars == <<points, bar, borne_off, current_player, dice, turn_number, history, call>>

gsvars == <<points, bar, borne_off, current_player, dice, turn_number, history>>

\* the GameState object held in the variables
Cur ==
    [board |-> [points |-> points, bar |-> bar, borne_off |-> borne_off],
     current_player |-> current_player, dice |-> dice,
     turn_number |-> turn_number, history |-> history]

Holds(state) ==
    /\ points = state.board.points
    /\ bar = state.board.bar
    /\ borne_off = state.board.borne_off
    /\ current_player = state.current_player
    /\ dice = state.dice
    /\ turn_number = state.turn_number
    /\ history = state.history

Becomes(state) ==
    /\ points' = state.board.points
    /\ bar' = state.board.bar
    /\ borne_off' = state.board.borne_off
    /\ current_player' = state.current_player
    /\ dice' = state.dice
    /\ turn_number' = state.turn_number
    /\ history' = state.history

NoCall == [op |-> "none"]

DieValues == 1 .. 6

DicePairs == DieValues \X DieValues

(* ---- positions the calls are made on ---- *)

\* checkers per side that are not borne off in a constructed position
MaxActive == 2

\* where a constructed position may hold PLAYER_1 checkers (None is the bar)
P1Locs == {None, 4, 7, 18}

\* where a constructed position may hold PLAYER_2 checkers (None is the bar)
P2Locs == {None, 1, 12, 18}

RECURSIVE SumOver(_, _)
SumOver(f, S) ==
    IF S = {} THEN 0
    ELSE LET x == CHOOSE y \in S : TRUE IN f[x] + SumOver(f, S \ {x})

Placements(Locs) ==
    {f \in [Locs -> 0 .. MaxActive] : SumOver(f, Locs) <= MaxActive}

On(f, i) == IF i \in DOMAIN f THEN f[i] ELSE 0

\* Board(points=..., bar=..., borne_off=...) with f1, f2 checkers per location
BoardOf(f1, f2) ==
    [points |-> [i \in Points |-> On(f1, i) * PLAYER_1 + On(f2, i) * PLAYER_2],
     bar |-> [i \in {0, 1} |-> IF i = 0 THEN f1[None] ELSE f2[None]],
     borne_off |-> [i \in {0, 1} |->
         N_CHECKERS_PER_PLAYER
         - (IF i = 0 THEN SumOver(f1, DOMAIN f1) ELSE SumOver(f2, DOMAIN f2))]]

ConstructedBoards ==
    {BoardOf(f1, f2) : <<f1, f2>> \in
        {pr \in Placements(P1Locs) \X Placements(P2Locs) :
            /\ \A i \in Points : On(pr[1], i) = 0 \/ On(pr[2], i) = 0
            /\ SumOver(pr[1], P1Locs) + SumOver(pr[2], P2Locs) > 0}}

(* ---- calls of the rules API on a constructed state ---- *)

\* PLAYER_1 on 8 and 9 behind three points that PLAYER_2 has made
BlockadeBoard ==
    [points |-> [i \in Points |->
                    IF i \in {8, 9} THEN PLAYER_1
                    ELSE IF i \in {1, 2, 3} THEN 2 * PLAYER_2 ELSE 0],
     bar |-> [i \in {0, 1} |-> 0],
     borne_off |-> [i \in {0, 1} |->
                       IF i = 0 THEN N_CHECKERS_PER_PLAYER - 2
                       ELSE N_CHECKERS_PER_PLAYER - 6]]

RulesInit ==
    /\ \E b \in ConstructedBoards \union {BlockadeBoard},
          p \in {PLAYER_1, PLAYER_2} :
           Holds(GameState(b, p))
    /\ call = NoCall

CallSingleDieMoves ==
    /\ call = NoCall
    /\ \E die \in DieValues :
           call' = [op |-> "single_die_moves", die |-> die,
                    ret |-> single_die_moves(Cur, die)]
    /\ UNCHANGED gsvars

CallLegalActions ==
    /\ call = NoCall
    /\ \E d \in DicePairs :
           /\ call' = [op |-> "legal_actions", dice |-> d, pre |-> Cur,
                       ret |-> legal_actions(Cur, d)]
           /\ Becomes(ArgAfter_legal_actions(Cur, d))

\* apply_step on a step that single_die_moves produced for the state
CallApplyStep ==
    /\ call = NoCall
    /\ \E die \in DieValues :
         LET moves == single_die_moves(Cur, die)
         IN  \E k \in 1 .. Len(moves) :
               /\ call' = [op |-> "apply_step", die |-> die, pre |-> Cur,
                           step |-> moves[k],
                           ret |-> apply_step(Cur, moves[k])]
               /\ Becomes(ArgAfter_apply_step(Cur, moves[k]))

\* steps a caller may hand to apply_step without asking single_die_moves
HandMadeSteps ==
    {Step(f, t, h) : f \in {None, 7, 12}, t \in {None, 1}, h \in {None, 1, 4}}

\* apply_step on a step the caller made up
CallApplyStepHandMade ==
    /\ call = NoCall
    /\ \E step \in HandMadeSteps :
           /\ call' = [op |-> "apply_step_hand_made", pre |-> Cur,
                       step |-> step, ret |-> apply_step(Cur, step)]
           /\ Becomes(ArgAfter_apply_step(Cur, step))

RulesNext ==
    \/ CallSingleDieMoves
    \/ CallLegalActions
    \/ CallApplyStep
    \/ CallApplyStepHandMade

SpecRules == RulesInit /\ [][RulesNext]_vars

(* ---- matches: play_turn with a RandomAgent for either player ---- *)

\* play_game's max_turns
MaxTurns == 2

\* the rolls the dice source delivers in the explored matches
GameRolls == {<<6, 1>>, <<6, 6>>}

\* late positions a match is resumed from: one PLAYER_1 checker and one or
\* two PLAYER_2 checkers are left to bear off
ResumeBoards ==
    {b \in ConstructedBoards :
        /\ b.borne_off[0] = N_CHECKERS_PER_PLAYER - 1
        /\ b.borne_off[1] >= N_CHECKERS_PER_PLAYER - 2
        /\ b.borne_off[1] < N_CHECKERS_PER_PLAYER}

Init ==
    /\ \/ Holds(GameStateInitial)
       \/ \E b \in ResumeBoards, p \in {PLAYER_1, PLAYER_2} :
              Holds(GameState(b, p))
    /\ call = NoCall

\* one iteration of play_game's loop: play_turn(state, RandomAgent, dice)
PlayTurn ==
    /\ ~is_game_over(Cur)
    /\ turn_number < MaxTurns
    /\ \E d \in GameRolls :
         \E chosen \in RandomAgent_choose_action(
                           set_dice(copy(Cur, TRUE), d[1], d[2]), d) :
           LET new_state == play_turn(Cur, chosen, d)
           IN  /\ call' = [op |-> "play_turn", dice |-> d, chosen |-> chosen,
                           pre |-> Cur, raised |-> IsError(new_state)]
               /\ IF IsError(new_state) THEN UNCHANGED gsvars
                  ELSE Becomes(new_state)

Next == PlayTurn

Spec == Init /\ [][Next]_vars

(* ---- calls of the agents, of the rules and of the turn on a state ---- *)

\* the dice the agents are asked about
AgentRolls == {<<6, 1>>, <<2, 1>>, <<3, 3>>}

\* ExpectimaxConfig() and the ExpectimaxConfig(depth=1) of the tests
AgentConfigs == {DefaultConfig, [DefaultConfig EXCEPT !.depth = 1]}

\* the boards the agents are asked about: one checker of PLAYER_1 against two
\* of PLAYER_2, none of them on point 18
AgentBoards ==
    {b \in ResumeBoards :
        /\ b.borne_off[1] = N_CHECKERS_PER_PLAYER - 2
        /\ b.points[18] = 0}

AgentsInit ==
    /\ \E b \in AgentBoards, p \in {PLAYER_1, PLAYER_2} :
           Holds(GameState(b, p))
    /\ call = NoCall

\* apply_action on an action that legal_actions produced for the state
CallApplyAction ==
    /\ call = NoCall
    /\ \E d \in AgentRolls :
         LET legal == legal_actions(Cur, d)
         IN  /\ ~Raised(legal)
             /\ \E k \in 1 .. Len(legal) :
                  /\ call' = [op |-> "apply_action", dice |-> d, pre |-> Cur,
                              action |-> legal[k],
                              ret |-> apply_action(Cur, legal[k])]
                  /\ Becomes(ArgAfter_apply_action(Cur, legal[k]))

CallHeuristicChoose ==
    /\ call = NoCall
    /\ \E d \in AgentRolls :
         \E chosen \in HeuristicAgent_choose_action(Cur, d, DEFAULT_WEIGHTS) :
           /\ call' = [op |-> "HeuristicAgent.choose_action", dice |-> d,
                       pre |-> Cur, ret |-> chosen]
           /\ Becomes(ArgAfter_choose_action(Cur, d))

CallExpectimaxChoose ==
    /\ call = NoCall
    /\ \E d \in AgentRolls, config \in AgentConfigs :
         \E chosen \in ExpectimaxAgent_choose_action(config, Cur, d) :
           /\ call' = [op |-> "ExpectimaxAgent.choose_action", dice |-> d,
                       depth |-> config.depth, pre |-> Cur, ret |-> chosen]
           /\ Becomes(ArgAfter_choose_action(Cur, d))

\* play_turn(state, agent) by a caller that keeps `state`
CallPlayTurn ==
    /\ call = NoCall
    /\ \E d \in GameRolls :
         \E chosen \in RandomAgent_choose_action(
                           set_dice(copy(Cur, TRUE), d[1], d[2]), d) :
           /\ call' = [op |-> "play_turn", dice |-> d, chosen |-> chosen,
                       pre |-> Cur, ret |-> play_turn(Cur, chosen, d)]
           /\ Becomes(ArgAfter_play_turn(Cur, chosen, d))

\* the die values a caller hands to set_dice
SetDiceValues == {0, 1, 6, 7}

\* state.set_dice(d1, d2): the state object itself is written
CallSetDice ==
    /\ call.op \in {"none", "next_turn"}
    /\ \E d1 \in SetDiceValues, d2 \in SetDiceValues :
           /\ call' = [op |-> "set_dice", dice |-> <<d1, d2>>, pre |-> Cur,
                       ret |-> set_dice(Cur, d1, d2)]
           /\ Becomes(set_dice(Cur, d1, d2))

\* state.next_turn(): the state object itself is written
CallNextTurn ==
    /\ call.op \in {"none", "set_dice", "next_turn"}
    /\ turn_number < MaxTurns
    /\ call' = [op |-> "next_turn", pre |-> Cur]
    /\ Becomes(next_turn(Cur))

\* the depths a caller configures
ConfigDepths == {-1, 0, 1, 2}

\* ExpectimaxConfig(depth=n)
CallExpectimaxConfig ==
    /\ call = NoCall
    /\ \E n \in ConfigDepths :
           call' = [op |-> "ExpectimaxConfig", depth |-> n,
                    ret |-> ExpectimaxConfig(n, DEFAULT_WEIGHTS, TRUE)]
    /\ UNCHANGED gsvars

AgentsNext ==
    \/ CallApplyStep
    \/ CallApplyAction
    \/ CallLegalActions
    \/ CallHeuristicChoose
    \/ CallExpectimaxChoose
    \/ CallPlayTurn
    \/ CallSetDice
    \/ CallNextTurn
    \/ CallExpectimaxConfig

SpecAgents == AgentsInit /\ [][AgentsNext]_vars

(* ---- play_game(agent_p1, agent_p2, max_turns) ---- *)

\* play_game is entered: state = GameState.initial(), or a late position with
\* PLAYER_1 to move that the match is resumed from
GameInit ==
    /\ \/ Holds(GameStateInitial)
       \/ \E b \in ResumeBoards : Holds(GameState(b, PLAYER_1))
    /\ \E m \in 0 .. MaxTurns :
          call = [op |-> "play_game", max_turns |-> m, returned |-> FALSE,
                  raised |-> FALSE, winner |-> NoPlayer, turns_played |-> 0]

\* one iteration of "while not state.is_game_over() and state.turn_number <
\* max_turns": state = play_turn(state, agent); an exception of play_turn
\* leaves play_game
GameLoop ==
    /\ call.op = "play_game"
    /\ ~call.returned /\ ~call.raised
    /\ ~is_game_over(Cur) /\ turn_number < call.max_turns
    /\ \E d \in GameRolls :
         \E chosen \in Agent_choose_action(
                           set_dice(copy(Cur, TRUE), d[1], d[2]), d) :
           \E new_state \in {play_turn(Cur, chosen, d)} :
               IF IsError(new_state)
               THEN call' = [call EXCEPT !.raised = TRUE] /\ UNCHANGED gsvars
               ELSE Becomes(new_state) /\ UNCHANGED call

\* the loop is left: return GameResult(winner=state.winner(),
\* final_state=state, turns_played=state.turn_number)
GameReturn ==
    /\ call.op = "play_game"
    /\ ~call.returned /\ ~call.raised
    /\ ~(~is_game_over(Cur) /\ turn_number < call.max_turns)
    /\ call' = [call EXCEPT !.returned = TRUE, !.winner = winner(Cur),
                            !.turns_played = turn_number]
    /\ UNCHANGED gsvars

GameNext ==
    \/ GameLoop
    \/ GameReturn

SpecGame == GameInit /\ [][GameNext]_vars

(* ---- play_turn called turn after turn by a caller of its own ---- *)

\* the caller holds GameState.initial(), or a late position with PLAYER_1 to
\* move that play is resumed from
PlayInit ==
    /\ \/ Holds(GameStateInitial)
       \/ \E b \in ResumeBoards : Holds(GameState(b, PLAYER_1))
    /\ call = NoCall

\* state = play_turn(state, agent, dice) with an agent that returns a legal
\* action; play_turn does not ask whether the game is over
PlayMove ==
    /\ turn_number < MaxTurns
    /\ \E d \in GameRolls :
         \E chosen \in RandomAgent_choose_action(
                           set_dice(copy(Cur, TRUE), d[1], d[2]), d) \ {NoAction} :
           \E new_state \in {play_turn(Cur, chosen, d)} :
               /\ call' = [op |-> "play_turn", dice |-> d, chosen |-> chosen,
                           pre |-> Cur, raised |-> IsError(new_state)]
               /\ IF IsError(new_state) THEN UNCHANGED gsvars
                  ELSE Becomes(new_state)

\* state = play_turn(state, agent, dice) with an agent that returns None
PlayPass ==
    /\ turn_number < MaxTurns
    /\ \E d \in GameRolls :
         \E new_state \in {play_turn(Cur, NoAction, d)} :
             /\ call' = [op |-> "play_turn", dice |-> d, chosen |-> NoAction,
                         pre |-> Cur, raised |-> IsError(new_state)]
             /\ IF IsError(new_state) THEN UNCHANGED gsvars
                ELSE Becomes(new_state)

PlayNext ==
    \/ PlayMove
    \/ PlayPass

SpecPlay == PlayInit /\ [][PlayNext]_vars

(* ---- evaluate_board(board, player, weights), called twice ---- *)

\* Board(points=np.zeros(24), bar=np.zeros(2), borne_off=np.zeros(2))
EmptyBoard ==
    [points |-> [i \in Points |-> 0], bar |-> [i \in {0, 1} |-> 0],
     borne_off |-> [i \in {0, 1} |-> 0]]

\* the boards that are evaluated
EvalBoards == ConstructedBoards \union {BoardInitial, EmptyBoard}

\* weights that single out the pip distance and the home made points
PIP_WEIGHTS == HeuristicWeights(0, 0, 0, 0, 0, 0, 0, ValueScale)

HOME_WEIGHTS == HeuristicWeights(0, ValueScale, 0, 0, 0, 0, 0, 0)

EvalWeights == {DEFAULT_WEIGHTS, PIP_WEIGHTS, HOME_WEIGHTS}

EvalInit ==
    /\ \E b \in EvalBoards : Holds(GameState(b, PLAYER_1))
    /\ call = NoCall

\* s1 = evaluate_board(board, player, weights);
\* s2 = evaluate_board(board, player, weights) on the same Board object
CallEvaluateBoard ==
    /\ call = NoCall
    /\ \E player \in {PLAYER_1, PLAYER_2}, weights \in EvalWeights :
         \E board \in {Cur.board} :
           \E after \in {ArgAfter_evaluate_board(board, player, weights)} :
               /\ call' = [op |-> "evaluate_board", player |-> player,
                           weights |-> weights, pre |-> board,
                           ret |-> evaluate_board(board, player, weights),
                           again |-> evaluate_board(after, player, weights)]
               /\ points' = ArgAfter_evaluate_board(after, player, weights).points
               /\ bar' = ArgAfter_evaluate_board(after, player, weights).bar
               /\ borne_off' =
                      ArgAfter_evaluate_board(after, player, weights).borne_off
    /\ UNCHANGED <<current_player, dice, turn_number, history>>

EvalNext == CallEvaluateBoard

SpecEval == EvalInit /\ [][EvalNext]_vars

(* ---- calls of moves.py on a board of (player, count) tuples ---- *)

TuplePlayers == {"X", "O"}

\* where a tuple board may hold checkers of X and of O (BAR is the bar)
XLocs == {BAR, 0, 18, 20}

OLocs == {BAR, 3, 5, 23}

\* Board(points, bar, borne_off) with fx, fo checkers per location
TupleBoardOf(fx, fo) ==
    [points |-> [i \in 0 .. 23 |->
                    IF On(fx, i) > 0 THEN <<"X", On(fx, i)>>
                    ELSE IF On(fo, i) > 0 THEN <<"O", On(fo, i)>>
                    ELSE EmptyPoint],
     bar |-> [p \in TuplePlayers |-> IF p = "X" THEN fx[BAR] ELSE fo[BAR]],
     borne_off |-> [p \in TuplePlayers |->
         N_CHECKERS_PER_PLAYER
         - (IF p = "X" THEN SumOver(fx, XLocs) ELSE SumOver(fo, OLocs))]]

TupleBoards ==
    {TupleBoardOf(fx, fo) : <<fx, fo>> \in Placements(XLocs) \X Placements(OLocs)}

\* the Board object held in the variables
TupleCur == [points |-> points, bar |-> bar, borne_off |-> borne_off]

\* moves a caller makes up without asking legal_moves_for_die
HandMadeMoves ==
    {Move(f, t, h) : f \in {BAR, 0, 3, 18}, t \in {3, 5, 20, BEAR_OFF},
                     h \in BOOLEAN}

MovesInit ==
    /\ \E b \in TupleBoards :
          /\ points = b.points
          /\ bar = b.bar
          /\ borne_off = b.borne_off
    /\ current_player = PLAYER_1
    /\ dice = NoDice
    /\ turn_number = 0
    /\ history = <<>>
    /\ call = NoCall

\* the Board object after apply_move_in_place, and the record of the call
AppliedInPlace(player, move, die) ==
    \E out \in {apply_move_in_place(TupleCur, player, move)} :
        /\ call' = [op |-> "apply_move_in_place", player |-> player,
                    move |-> move, die |-> die, pre |-> TupleCur,
                    raised |-> out.raised]
        /\ points' = out.board.points
        /\ bar' = out.board.bar
        /\ borne_off' = out.board.borne_off
        /\ UNCHANGED <<current_player, dice, turn_number, history>>

CallLegalMovesForDie ==
    /\ call = NoCall
    /\ \E player \in TuplePlayers, die \in DieValues :
           call' = [op |-> "legal_moves_for_die", player |-> player,
                    die |-> die,
                    ret |-> legal_moves_for_die(TupleCur, player, die)]
    /\ UNCHANGED gsvars

\* apply_move_in_place on a move that legal_moves_for_die returned
CallApplyGenerated ==
    /\ call = NoCall
    /\ \E player \in TuplePlayers, die \in DieValues :
         \E moves \in {legal_moves_for_die(TupleCur, player, die)} :
           \E k \in 1 .. Len(moves) : AppliedInPlace(player, moves[k], die)

\* apply_move_in_place on a move of the caller's own making
CallApplyHandMade ==
    /\ call = NoCall
    /\ \E player \in TuplePlayers, move \in HandMadeMoves :
           AppliedInPlace(player, move, 0)

MovesNext ==
    \/ CallLegalMovesForDie
    \/ CallApplyGenerated
    \/ CallApplyHandMade

SpecMoves == MovesInit /\ [][MovesNext]_vars

(* ---- the calls of one expectimax search, followed along a path ---- *)

\* the dice the searching agent is asked about
SearchRolls == {<<6, 1>>, <<2, 1>>, <<3, 3>>}

\* the configurations of the searching agent: three depths, the default
\* weights and weights evaluate_board can fail with
SearchConfigs ==
    {ExpectimaxConfig(n, w, TRUE) :
        n \in 1 .. 3, w \in {DEFAULT_WEIGHTS, HUGE_OPP_BAR_WEIGHTS}}
    \union {ExpectimaxConfig(2, DEFAULT_WEIGHTS, FALSE)}

\* Board(...) with the last PLAYER_1 checker on index p1 and the last two
\* PLAYER_2 checkers on the indices a and b
SearchBoard(p1, a, b) ==
    BoardOf([l \in P1Locs |-> IF l = p1 THEN 1 ELSE 0],
            [l \in P2Locs |-> (IF l = a THEN 1 ELSE 0) + (IF l = b THEN 1 ELSE 0)])

\* the positions searched
SearchBoards ==
    {SearchBoard(7, 1, 12), SearchBoard(7, 1, 1), SearchBoard(18, 1, 12)}

\* every configuration is run for the side with one checker left; for the
\* side with two, those of depth 1 and the default configuration
SearchConfigsFor(state) ==
    IF state.current_player = PLAYER_1 THEN SearchConfigs
    ELSE {config \in SearchConfigs : config.depth = 1} \union {DefaultConfig}

SearchInit ==
    /\ \E b \in SearchBoards, p \in {PLAYER_1, PLAYER_2} : Holds(GameState(b, p))
    /\ call = NoCall

\* agent.choose_action(state, dice) is called
SearchRoot ==
    /\ call = NoCall
    /\ \E d \in SearchRolls, config \in SearchConfigsFor(Cur) :
           call' = RootFrame(config, Cur, d)
    /\ UNCHANGED gsvars

\* an iteration of "for action in legal_actions" in choose_action or in
\* _decision_value, reached when no earlier iteration raised
DecisionCallsChance ==
    /\ call.op \in {"choose_action", "_decision_value"}
    /\ ~call.base
    /\ ~Raised(call.legal)
    /\ \E k \in 1 .. Len(call.legal) :
           /\ \A j \in 1 .. (k - 1) : ~IsError(At(call.values, j))
           /\ \E next_state \in {apply_action(Cur, call.legal[k])} :
                  /\ ~IsError(next_state)
                  /\ call' = ChanceCall(call, next_state, k)
                  /\ Becomes(next_state)

\* "if not legal_actions" in _decision_value: the turn is passed
DecisionPasses ==
    /\ call.op = "_decision_value"
    /\ ~call.base
    /\ call.legal = <<>>
    /\ call' = ChanceCall(call, Cur, 0)
    /\ UNCHANGED gsvars

\* an iteration of "for dice, prob in outcomes_with_prob" in _chance_value
ChanceCallsDecision ==
    /\ call.op = "_chance_value"
    /\ ~call.base
    /\ \E k \in 1 .. Len(OutcomesWithProb(call.config)) :
           call' = DecisionCall(call, Cur, k)
    /\ UNCHANGED gsvars

SearchNext ==
    \/ SearchRoot
    \/ DecisionCallsChance
    \/ DecisionPasses
    \/ ChanceCallsDecision

SpecSearch == SearchInit /\ [][SearchNext]_vars

(* ---------------------------------------------------------------- *)
(* Vocabulary of the properties                                      *)
(* ---------------------------------------------------------------- *)

Players == {PLAYER_1, PLAYER_2}

IsAction(x) == DOMAIN x = {"steps"}

\* checkers of player p on point i of board b
OwnAt(b, p, i) == IF b.points[i] * p > 0 THEN Abs(b.points[i]) ELSE 0

\* checkers of the opponent of p on point i of board b
EnemyAt(b, p, i) == IF b.points[i] * p < 0 THEN Abs(b.points[i]) ELSE 0

RECURSIVE OnPointsUpTo(_, _, _)
\* checkers of p on the points 0 .. n of board b
OnPointsUpTo(b, p, n) ==
    IF n < 0 THEN 0 ELSE OwnAt(b, p, n) + OnPointsUpTo(b, p, n - 1)

\* checkers of p on points + on the bar + borne off
Checkers(b, p) ==
    OnPointsUpTo(b, p, N_POINTS - 1)
    + b.bar[player_index(p)] + b.borne_off[player_index(p)]

Conserved(b) == \A p \in Players : Checkers(b, p) = N_CHECKERS_PER_PLAYER

\* the state in which the k-th step of steps is played from state
Before(state, steps, k) == ApplySteps(state, SubSeq(steps, 1, k - 1), 1)

DiceToPlay(d) == IF d[1] = d[2] THEN <<d[1], d[1], d[1], d[1]>> ELSE d

Higher(d) == IF d[1] > d[2] THEN d[1] ELSE d[2]

RECURSIVE MaxPlayable(_, _)
\* the largest number of steps any playable sequence has: a sequence plays an
\* unplayed die instance of ds on a step single_die_moves offers, and goes on
MaxPlayable(state, ds) ==
    LET firsts == {i \in 1 .. Len(ds) : \A j \in 1 .. (i - 1) : ds[j] # ds[i]}
        lens == UNION {
                  LET moves == single_die_moves(state, ds[i])
                  IN  {1 + MaxPlayable(apply_step(state, moves[k]), RemoveAt(ds, i)) :
                          k \in 1 .. Len(moves)} : i \in firsts}
    IN  IF lens = {} THEN 0 ELSE CHOOSE m \in lens : \A l \in lens : l <= m

\* every non-borne-off checker of p is on a point of p's home range
AllHome(b, p) ==
    /\ b.bar[player_index(p)] = 0
    /\ \A i \in Points \ home_board_range(p) : OwnAt(b, p, i) = 0

(* ---------------------------------------------------------------- *)
(* C1: Checker conservation.  In every state of a match, and after   *)
(* every single step of the action a turn applied, each player has   *)
(* 15 checkers on points + bar + borne off.                          *)
(* ---------------------------------------------------------------- *)
C1_CheckerConservation ==
    /\ Conserved(Cur.board)
    /\ call.op = "play_turn" =>
         /\ ~call.raised
         /\ IsAction(call.chosen) =>
              \A k \in 1 .. Len(call.chosen.steps) :
                 LET s == Before(call.pre, call.chosen.steps, k + 1)
                 IN  ~IsError(s) /\ Conserved(s.board)

\* a turn applied a two-step action that hit a checker
C1_Witness ==
    /\ call.op = "play_turn"
    /\ IsAction(call.chosen)
    /\ Len(call.chosen.steps) >= 2
    /\ \E k \in 1 .. Len(call.chosen.steps) : call.chosen.steps[k].hit_index # None
    /\ \E p \in Players : bar[player_index(p)] > 0

(* ---------------------------------------------------------------- *)
(* C2: Use-maximum-dice.  Every action legal_actions returns has as  *)
(* many steps as the longest playable sequence of the roll (at most  *)
(* 2 for a non-double, 4 for a double); none is shorter.             *)
(* ---------------------------------------------------------------- *)
C2_UseMaximumDice ==
    call.op = "legal_actions" =>
        LET m == MaxPlayable(Cur, DiceToPlay(call.dice))
        IN  /\ m <= (IF call.dice[1] = call.dice[2] THEN 4 ELSE 2)
            /\ m > 0 => call.ret # <<>>
            /\ \A i \in 1 .. Len(call.ret) : Len(call.ret[i].steps) = m

\* a double 6 of which only three dice can be played
C2_Witness ==
    /\ call.op = "legal_actions"
    /\ call.dice = <<6, 6>>
    /\ call.ret # <<>>
    /\ \A i \in 1 .. Len(call.ret) : Len(call.ret[i].steps) = 3
    /\ \E i \in Points : OwnAt(Cur.board, current_player, i) > 0
                         /\ single_die_moves(Cur, 6) # <<>>

(* ---------------------------------------------------------------- *)
(* C3: Higher-die preference.  On a non-double roll of which at most *)
(* one die can be played, when the larger die can be played, every   *)
(* returned action is one step played with the larger die.           *)
(* ---------------------------------------------------------------- *)
C3_HigherDiePreferred ==
    ( /\ call.op = "legal_actions"
      /\ call.dice[1] # call.dice[2]
      /\ MaxPlayable(Cur, call.dice) = 1
      /\ single_die_moves(Cur, Higher(call.dice)) # <<>> )
    => /\ call.ret # <<>>
       /\ \A i \in 1 .. Len(call.ret) :
            /\ Len(call.ret[i].steps) = 1
            /\ InSeq(call.ret[i].steps[1],
                     single_die_moves(Cur, Higher(call.dice)))

\* dice (2,4), the only checker on 7 can play either die but not both:
\* the one action is 7->3
C3_Witness ==
    /\ call.op = "legal_actions"
    /\ call.dice = <<2, 4>>
    /\ MaxPlayable(Cur, call.dice) = 1
    /\ single_die_moves(Cur, 2) = <<Step(7, 5, None)>>
    /\ call.ret = <<[steps |-> <<Step(7, 3, None)>>]>>

(* ---------------------------------------------------------------- *)
(* C4: Mandatory bar re-entry.  With a checker of the mover on the   *)
(* bar, single_die_moves returns only steps from the bar, and every  *)
(* step of a legal action played while the mover still has a checker *)
(* on the bar starts from the bar.                                   *)
(* ---------------------------------------------------------------- *)
C4_BarFirst ==
    LET me == player_index(current_player)
    IN  /\ (call.op = "single_die_moves" /\ bar[me] > 0) =>
              \A k \in 1 .. Len(call.ret) : call.ret[k].from_point = None
        /\ (call.op = "legal_actions" /\ bar[me] > 0) =>
              \A i \in 1 .. Len(call.ret) :
                 /\ call.ret[i].steps[1].from_point = None
                 /\ \A k \in 1 .. Len(call.ret[i].steps) :
                      Before(Cur, call.ret[i].steps, k).board.bar[me] > 0
                      => call.ret[i].steps[k].from_point = None

\* an action that enters from the bar and then moves a checker on a point,
\* in a position where the mover also had a checker on a point to move
C4_Witness ==
    /\ call.op = "legal_actions"
    /\ bar[player_index(current_player)] = 1
    /\ \E i \in Points : OwnAt(Cur.board, current_player, i) > 0
    /\ \E i \in 1 .. Len(call.ret) :
          /\ Len(call.ret[i].steps) = 2
          /\ call.ret[i].steps[1].from_point = None
          /\ call.ret[i].steps[2].from_point # None

(* ---------------------------------------------------------------- *)
(* C5: Forced pass.  legal_actions returns the empty list exactly    *)
(* when single_die_moves is empty for both dice; so it does when the *)
(* mover is on the bar and both entry points hold 2+ enemy checkers. *)
(* ---------------------------------------------------------------- *)
C5_ForcedPass ==
    call.op = "legal_actions" =>
        LET d == call.dice
            me == current_player
            blocked(die) ==
                EnemyAt(Cur.board, me, entry_point_from_bar(me, die)) >= 2
        IN  /\ call.ret = <<>> <=> ( /\ single_die_moves(Cur, d[1]) = <<>>
                                     /\ single_die_moves(Cur, d[2]) = <<>> )
            /\ (bar[player_index(me)] > 0 /\ blocked(d[1]) /\ blocked(d[2]))
               => call.ret = <<>>

\* the mover is on the bar, the entry point of the roll is blocked: no action
C5_Witness ==
    /\ call.op = "legal_actions"
    /\ bar[player_index(current_player)] > 0
    /\ \A k \in 1 .. 2 :
          EnemyAt(Cur.board, current_player,
                  entry_point_from_bar(current_player, call.dice[k])) >= 2
    /\ call.ret = <<>>

(* ---------------------------------------------------------------- *)
(* C6: Hit effect.  apply_step on a generated step with hit_index    *)
(* set adds 1 to the opponent's bar, takes 1 opponent checker off    *)
(* that point, leaves the point owned by the mover, and leaves both  *)
(* players' total checker counts unchanged.                          *)
(* ---------------------------------------------------------------- *)
C6_HitEffect ==
    (call.op = "apply_step" /\ call.step.hit_index # None) =>
        LET me == current_player
            opp == other_player(me)
            h == call.step.hit_index
            old == Cur.board
        IN  /\ ~IsError(call.ret)
            /\ call.ret.board.bar[player_index(opp)] = bar[player_index(opp)] + 1
            /\ EnemyAt(call.ret.board, me, h) = EnemyAt(old, me, h) - 1
            /\ OwnAt(call.ret.board, me, h) > 0
            /\ owner_of_point(call.ret.board, h) = me
            /\ \A p \in Players :
                  /\ Checkers(call.ret.board, p) = Checkers(old, p)
                  /\ total_checkers_for(call.ret.board, p)
                       = total_checkers_for(old, p)

\* a checker moved from a point onto a blot, the victim is on the bar
C6_Witness ==
    /\ call.op = "apply_step"
    /\ call.step.hit_index # None
    /\ call.step.from_point # None
    /\ ~IsError(call.ret)
    /\ call.ret.board.bar[player_index(other_player(current_player))] = 1

(* ---------------------------------------------------------------- *)
(* C7: Generated moves are always applicable.  Applying any action   *)
(* legal_actions returns step by step never raises: each step's      *)
(* origin holds a checker of the mover when it is applied, and each  *)
(* hit target holds exactly one enemy checker.                       *)
(* ---------------------------------------------------------------- *)
C7_GeneratedApplicable ==
    call.op = "legal_actions" =>
        /\ ~Raised(call.ret)
        /\ \A i \in 1 .. Len(call.ret) :
             LET steps == call.ret[i].steps
                 me == current_player
             IN  /\ ~IsError(apply_action(Cur, call.ret[i]))
                 /\ \A k \in 1 .. Len(steps) :
                      LET s == Before(Cur, steps, k)
                      IN  /\ ~IsError(s)
                          /\ IF steps[k].from_point = None
                             THEN s.board.bar[player_index(me)] > 0
                             ELSE OwnAt(s.board, me, steps[k].from_point) > 0
                          /\ steps[k].hit_index # None =>
                                EnemyAt(s.board, me, steps[k].hit_index) = 1
                          /\ ~IsError(apply_step(s, steps[k]))

\* an action of two steps whose second step hits was returned
C7_Witness ==
    /\ call.op = "legal_actions"
    /\ \E i \in 1 .. Len(call.ret) :
          /\ Len(call.ret[i].steps) >= 2
          /\ call.ret[i].steps[2].hit_index # None
          /\ ~IsError(apply_action(Cur, call.ret[i]))

\* bear-off steps come only from home points, with every checker home
BearOffGated ==
    call.op = "single_die_moves" =>
        \A k \in 1 .. Len(call.ret) :
            call.ret[k].to_point = None =>
               /\ call.ret[k].from_point # None
               /\ call.ret[k].from_point \in home_board_range(current_player)
               /\ AllHome(Cur.board, current_player)

\* the step single_die_moves should emit for the mover's checker on idx,
\* as a set: empty when the target is off the board or blocked
MoveOf(b, p, idx, die) ==
    LET target == idx + direction_for(p) * die
    IN  IF target \notin Points \/ EnemyAt(b, p, target) >= 2 THEN {}
        ELSE {Step(idx, target,
                   IF EnemyAt(b, p, target) = 1 THEN target ELSE None)}

\* the mover's points outside the home range
OutsideHome(b, p) == {i \in Points \ home_board_range(p) : OwnAt(b, p, i) > 0}

\* every in-range unblocked move of a checker outside home is in the result
OutsideMovesEmitted ==
    \A idx \in OutsideHome(Cur.board, current_player) :
        \A st \in MoveOf(Cur.board, current_player, idx, call.die) :
            InSeq(st, call.ret)

(* ---------------------------------------------------------------- *)
(* C8: Bear-off gating.  single_die_moves emits a bear-off step from *)
(* idx only if idx is in the mover's home range and every checker    *)
(* not borne off is on a home point.  With a checker outside home    *)
(* and none on the bar, no bear-off step is emitted and the in-range *)
(* moves of the outside checker to unblocked points are emitted.     *)
(* ---------------------------------------------------------------- *)
C8_BearOffGating ==
    /\ BearOffGated
    /\ ( /\ call.op = "single_die_moves"
         /\ OutsideHome(Cur.board, current_player) # {}
         /\ bar[player_index(current_player)] = 0 )
       => /\ \A k \in 1 .. Len(call.ret) : call.ret[k].to_point # None
          /\ OutsideMovesEmitted

\* a checker at home that would overshoot, one outside home that can move:
\* only the move of the outside checker is emitted
C8_Witness ==
    /\ call.op = "single_die_moves"
    /\ current_player = PLAYER_1
    /\ bar[player_index(PLAYER_1)] = 0
    /\ OwnAt(Cur.board, PLAYER_1, 4) = 1
    /\ OwnAt(Cur.board, PLAYER_1, 7) = 1
    /\ call.die = 5
    /\ call.ret = <<Step(7, 2, None)>>

\* C8 as stated: the moves of the outside checker are emitted whenever the
\* mover has a checker outside home, a checker on the bar included
C8_AsStated ==
    /\ BearOffGated
    /\ ( /\ call.op = "single_die_moves"
         /\ \/ OutsideHome(Cur.board, current_player) # {}
            \/ bar[player_index(current_player)] > 0 )
       => /\ \A k \in 1 .. Len(call.ret) : call.ret[k].to_point # None
          /\ OutsideMovesEmitted

\* PLAYER_1 has a checker on 18..23 and another one outside that range
GatingScenario ==
    /\ current_player = PLAYER_1
    /\ \E i \in 18 .. 23 : OwnAt(Cur.board, PLAYER_1, i) > 0
    /\ \/ \E i \in 0 .. 17 : OwnAt(Cur.board, PLAYER_1, i) > 0
       \/ bar[player_index(PLAYER_1)] > 0

\* some returned action moves a PLAYER_1 checker that is outside 18..23
OutsideCheckerOffered ==
    \E i \in 1 .. Len(call.ret) :
        \E k \in 1 .. Len(call.ret[i].steps) :
            LET st == call.ret[i].steps[k]
            IN  /\ st.from_point \notin 18 .. 23
                /\ st.to_point # None
                /\ \/ st.from_point = None
                   \/ OwnAt(Cur.board, PLAYER_1, st.from_point) > 0

\* the outside checker has a legal single-die move with one of the dice
OutsideCheckerCanMove ==
    \E k \in 1 .. 2 :
        LET moves == single_die_moves(Cur, call.dice[k])
        IN  \E j \in 1 .. Len(moves) :
                moves[j].from_point \notin 18 .. 23 /\ moves[j].to_point # None

(* ---------------------------------------------------------------- *)
(* C9: Bear-off gating scenario.  PLAYER_1 has a checker on 18..23   *)
(* and another outside that range.  For every dice pair no action    *)
(* starts with a bear-off step, a bear-off step is played only once  *)
(* the earlier steps of the action brought every PLAYER_1 checker    *)
(* onto 0..5, and when the outside checker has a legal single-die    *)
(* move, legal_actions offers at least one action.                   *)
(* ---------------------------------------------------------------- *)
C9_GatingScenario ==
    (call.op = "legal_actions" /\ GatingScenario) =>
        /\ \A i \in 1 .. Len(call.ret) :
             /\ call.ret[i].steps[1].to_point # None
             /\ \A k \in 1 .. Len(call.ret[i].steps) :
                  call.ret[i].steps[k].to_point = None =>
                      AllHome(Before(Cur, call.ret[i].steps, k).board, PLAYER_1)
        /\ OutsideCheckerCanMove => call.ret # <<>>

\* double 6 with checkers on 18 and 4: 18->12->6->0, then a bear-off
C9_Witness ==
    /\ call.op = "legal_actions"
    /\ GatingScenario
    /\ call.dice = <<6, 6>>
    /\ \E i \in 1 .. Len(call.ret) :
          /\ Len(call.ret[i].steps) = 4
          /\ call.ret[i].steps[1] = Step(18, 12, None)
          /\ call.ret[i].steps[4].to_point = None

\* C9 as stated: no action contains a bear-off step, and a move of the
\* outside checker is offered when it has a legal destination
C9_AsStated ==
    (call.op = "legal_actions" /\ GatingScenario) =>
        /\ \A i \in 1 .. Len(call.ret) :
             \A k \in 1 .. Len(call.ret[i].steps) :
                 call.ret[i].steps[k].to_point # None
        /\ OutsideCheckerCanMove => OutsideCheckerOffered

\* an empty board, one PLAYER_1 checker on the bar, PLAYER_1 to move
BarEntryScenario ==
    /\ current_player = PLAYER_1
    /\ \A i \in Points : points[i] = 0
    /\ bar[player_index(PLAYER_1)] = 1
    /\ bar[player_index(PLAYER_2)] = 0

(* ---------------------------------------------------------------- *)
(* C10: Bar-entry scenario.  On an empty board with one PLAYER_1     *)
(* checker on the bar, single_die_moves with die 3 yields exactly    *)
(* one step, from the bar to index 21 (24 - die).                    *)
(* ---------------------------------------------------------------- *)
C10_BarEntry ==
    (call.op = "single_die_moves" /\ call.die = 3 /\ BarEntryScenario) =>
        call.ret = <<Step(None, 21, None)>>

\* single_die_moves was called with die 3 in the scenario and gave one step
C10_Witness ==
    /\ call.op = "single_die_moves"
    /\ call.die = 3
    /\ BarEntryScenario
    /\ Len(call.ret) = 1
    /\ call.ret[1].from_point = None

\* C10 as stated: the one step goes from the bar to index 20
C10_AsStated ==
    (call.op = "single_die_moves" /\ call.die = 3 /\ BarEntryScenario) =>
        /\ Len(call.ret) = 1
        /\ call.ret[1].from_point = None
        /\ call.ret[1].to_point = 20

(* ---------------------------------------------------------------- *)
(* C11: Bar-entry legality.  With a checker of the mover on the bar, *)
(* single_die_moves returns at most one step: exactly the step from  *)
(* the bar to the die's entry point, which lies in the opponent's    *)
(* home range, iff that point is empty, the mover's, or holds one    *)
(* enemy checker; the empty list iff it holds 2 or more.             *)
(* ---------------------------------------------------------------- *)
C11_BarEntryLegality ==
    (call.op = "single_die_moves" /\ bar[player_index(current_player)] > 0) =>
        LET me == current_player
            entry == entry_point_from_bar(me, call.die)
            enemies == EnemyAt(Cur.board, me, entry)
        IN  /\ Len(call.ret) <= 1
            /\ entry \in home_board_range(other_player(me))
            /\ enemies <= 1 <=>
                 call.ret = <<Step(None, entry,
                                   IF enemies = 1 THEN entry ELSE None)>>
            /\ enemies >= 2 <=> call.ret = <<>>

\* on the bar with a second checker on a point that could move: one die
\* gives the entry alone
C11_Witness ==
    /\ call.op = "single_die_moves"
    /\ bar[player_index(current_player)] > 0
    /\ \E i \in Points : OwnAt(Cur.board, current_player, i) > 0
    /\ Len(call.ret) = 1
    /\ call.ret[1].from_point = None
    /\ call.ret[1].hit_index = None

(* ---------------------------------------------------------------- *)
(* C12: Blocked points.  No step single_die_moves returns, and no    *)
(* step of an action legal_actions returns, lands on a point that    *)
(* holds 2 or more enemy checkers when the step is played.           *)
(* ---------------------------------------------------------------- *)
C12_NeverOntoBlocked ==
    LET me == current_player
    IN  /\ call.op = "single_die_moves" =>
              \A k \in 1 .. Len(call.ret) :
                  call.ret[k].to_point # None =>
                      EnemyAt(Cur.board, me, call.ret[k].to_point) < 2
        /\ call.op = "legal_actions" =>
              \A i \in 1 .. Len(call.ret) :
                  \A k \in 1 .. Len(call.ret[i].steps) :
                      call.ret[i].steps[k].to_point # None =>
                          EnemyAt(Before(Cur, call.ret[i].steps, k).board, me,
                                  call.ret[i].steps[k].to_point) < 2

\* a checker of the mover faces a blocked point for the die, another one
\* can move: only the other one's step is returned
C12_Witness ==
    /\ call.op = "single_die_moves"
    /\ bar[player_index(current_player)] = 0
    /\ \E idx \in Points :
          LET target == idx + direction_for(current_player) * call.die
          IN  /\ OwnAt(Cur.board, current_player, idx) > 0
              /\ target \in Points
              /\ EnemyAt(Cur.board, current_player, target) >= 2
    /\ call.ret # <<>>

(* ---------------------------------------------------------------- *)
(* C13: Hit marking.  A step of single_die_moves has hit_index set   *)
(* iff its destination held exactly one enemy checker in the         *)
(* position it was generated from, and then hit_index = to_point;    *)
(* bear-offs and steps onto empty or own points have hit_index None. *)
(* ---------------------------------------------------------------- *)
C13_HitMarking ==
    call.op = "single_die_moves" =>
        \A k \in 1 .. Len(call.ret) :
            LET st == call.ret[k]
                blot == /\ st.to_point # None
                        /\ EnemyAt(Cur.board, current_player, st.to_point) = 1
            IN  /\ st.hit_index # None <=> blot
                /\ st.hit_index # None => st.hit_index = st.to_point

\* one result holds a hitting step and a step onto an empty point
C13_Witness ==
    /\ call.op = "single_die_moves"
    /\ \E k \in 1 .. Len(call.ret) : call.ret[k].hit_index # None
    /\ \E k \in 1 .. Len(call.ret) :
          /\ call.ret[k].hit_index = None
          /\ call.ret[k].to_point # None

(* ---------------------------------------------------------------- *)
(* C14: Bear-off availability.  When every checker of the mover that *)
(* is not borne off is on a home point (none on the bar),            *)
(* single_die_moves emits a bear-off step from every home point of   *)
(* the mover whose destination for the die is off the board, an      *)
(* overshoot beyond the exact distance included.                     *)
(* ---------------------------------------------------------------- *)
C14_BearOffAvailable ==
    (call.op = "single_die_moves" /\ AllHome(Cur.board, current_player)) =>
        \A idx \in home_board_range(current_player) :
            ( /\ OwnAt(Cur.board, current_player, idx) > 0
              /\ idx + direction_for(current_player) * call.die \notin Points )
            => InSeq(Step(idx, None, None), call.ret)

\* PLAYER_1's last checkers are on index 4; a 6 overshoots and bears off
C14_Witness ==
    /\ call.op = "single_die_moves"
    /\ current_player = PLAYER_1
    /\ AllHome(Cur.board, PLAYER_1)
    /\ OwnAt(Cur.board, PLAYER_1, 4) > 0
    /\ call.die = 6
    /\ call.ret = <<Step(4, None, None)>>

(* ---------------------------------------------------------------- *)
(* C15: Deduplication.  The list legal_actions returns never holds   *)
(* two actions with the same ordered sequence of steps.              *)
(* ---------------------------------------------------------------- *)
C15_NoDuplicateActions ==
    call.op = "legal_actions" =>
        \A i, j \in 1 .. Len(call.ret) :
            call.ret[i].steps = call.ret[j].steps => i = j

\* the enumeration produced the same best sequence more than once
C15_Witness ==
    /\ call.op = "legal_actions"
    /\ Len(call.ret) >= 2
    /\ LET raw == _generate_action_candidates(Cur, DiceToPlay(call.dice))
           m == Len(call.ret[1].steps)
       IN  \E i, j \in 1 .. Len(raw) :
              i # j /\ raw[i].steps = raw[j].steps /\ Len(raw[i].steps) = m

\* the state play_turn handed to the agent and to apply_action in the last turn
TurnInput == set_dice(copy(call.pre, TRUE), call.dice[1], call.dice[2])

\* what apply_action returned for it
TurnApplied == apply_action(TurnInput, call.chosen)

(* ---------------------------------------------------------------- *)
(* C16: apply_action frame.  The state apply_action returns has the  *)
(* current_player, dice and turn_number of its input; the board may  *)
(* differ, and the history is not carried over: it is empty when the *)
(* action has a step (and the input's when it has none).             *)
(* ---------------------------------------------------------------- *)
C16_ApplyActionFrame ==
    (call.op = "play_turn" /\ IsAction(call.chosen)) =>
        /\ ~IsError(TurnApplied)
        /\ TurnApplied.current_player = TurnInput.current_player
        /\ TurnApplied.dice = TurnInput.dice
        /\ TurnApplied.turn_number = TurnInput.turn_number
        /\ TurnApplied.history =
              (IF call.chosen.steps = <<>> THEN TurnInput.history ELSE <<>>)
        /\ apply_action(TurnInput, [steps |-> <<>>]) = TurnInput

\* a second turn: the input has dice, a turn number and a history, and the
\* action changed the board
C16_Witness ==
    /\ call.op = "play_turn"
    /\ IsAction(call.chosen)
    /\ TurnInput.turn_number = 1
    /\ TurnInput.history # <<>>
    /\ TurnInput.dice = <<6, 1>>
    /\ ~IsError(TurnApplied)
    /\ TurnApplied.board # TurnInput.board

\* C16 as stated: only the board may differ, so the history is the input's
C16_AsStated ==
    (call.op = "play_turn" /\ IsAction(call.chosen)) =>
        /\ ~IsError(TurnApplied)
        /\ TurnApplied.current_player = TurnInput.current_player
        /\ TurnApplied.dice = TurnInput.dice
        /\ TurnApplied.turn_number = TurnInput.turn_number
        /\ TurnApplied.history = TurnInput.history

\* the origin of the step does not hold a checker of the mover of state
InvalidOrigin(state, step) ==
    IF step.from_point = None
    THEN state.board.bar[player_index(state.current_player)] = 0
    ELSE OwnAt(state.board, state.current_player, step.from_point) = 0

(* ---------------------------------------------------------------- *)
(* C18: Invalid origin is fatal.  apply_step with a step whose       *)
(* from_point is a point the current player does not own, or the bar *)
(* while the player's bar is empty, raises, and the state passed in  *)
(* is left as it was.                                                *)
(* ---------------------------------------------------------------- *)
C18_InvalidOriginRaises ==
    (call.op = "apply_step_hand_made" /\ InvalidOrigin(call.pre, call.step)) =>
        /\ IsError(call.ret)
        /\ Cur = call.pre

\* the origin is invalid and the step hits a blot: the hit is made on the
\* copy before move_checker raises
C18_Witness ==
    /\ call.op = "apply_step_hand_made"
    /\ InvalidOrigin(call.pre, call.step)
    /\ call.step.from_point # None
    /\ call.step.hit_index # None
    /\ EnemyAt(call.pre.board, call.pre.current_player, call.step.hit_index) = 1
    /\ IsError(call.ret)

(* ---------------------------------------------------------------- *)
(* C19: Invalid hit target is fatal.  apply_step with a step whose   *)
(* hit_index names a point that does not hold exactly one enemy      *)
(* checker (empty, the mover's, or 2 or more enemy checkers) raises  *)
(* an error instead of producing a position.                         *)
(* ---------------------------------------------------------------- *)
C19_AsStated ==
    ( /\ call.op = "apply_step_hand_made"
      /\ call.step.hit_index # None
      /\ EnemyAt(call.pre.board, call.pre.current_player,
                 call.step.hit_index) # 1 )
    => IsError(call.ret)

\* a step onto a point with two enemy checkers, marked as a hit, was applied:
\* no error, and the mover has a checker less than before
C19_Witness ==
    /\ call.op = "apply_step_hand_made"
    /\ call.step.hit_index # None
    /\ call.step.to_point = call.step.hit_index
    /\ EnemyAt(call.pre.board, call.pre.current_player, call.step.hit_index) = 2
    /\ ~IsError(call.ret)
    /\ Checkers(call.ret.board, call.pre.current_player)
         = N_CHECKERS_PER_PLAYER - 1


\* the calls that must leave the GameState they are given as it was
FrameCalls ==
    {"apply_step", "apply_action", "legal_actions",
     "HeuristicAgent.choose_action", "ExpectimaxAgent.choose_action",
     "play_turn"}

\* C17: after apply_step, apply_action, legal_actions, either agent's
\* choose_action or play_turn, the GameState object that was passed in has the
\* points, bar, borne_off, current_player, dice, turn_number and history it
\* had before the call.
C17_CallerStateUnchanged ==
    call.op \in FrameCalls =>
        /\ points = call.pre.board.points
        /\ bar = call.pre.board.bar
        /\ borne_off = call.pre.board.borne_off
        /\ current_player = call.pre.current_player
        /\ dice = call.pre.dice
        /\ turn_number = call.pre.turn_number
        /\ history = call.pre.history

\* an expectimax search of depth 2 returned an action that hits a checker, and
\* the state it was given is as before
C17_Witness ==
    /\ call.op = "ExpectimaxAgent.choose_action"
    /\ call.depth = 2
    /\ IsAction(call.ret)
    /\ \E i \in 1 .. Len(call.ret.steps) : call.ret.steps[i].hit_index # None
    /\ apply_action(call.pre, call.ret).board # call.pre.board
    /\ Cur = call.pre

\* the calls of an agent's choose_action
AgentCalls ==
    {"HeuristicAgent.choose_action", "ExpectimaxAgent.choose_action"}

\* C20: HeuristicAgent.choose_action and ExpectimaxAgent.choose_action return
\* None exactly when legal_actions(state, dice) is empty, and otherwise an
\* element of legal_actions(state, dice).
C20_AgentsReturnLegal ==
    call.op \in AgentCalls =>
        LET legal == legal_actions(call.pre, call.dice)
        IN  /\ ~Raised(legal)
            /\ (call.ret = NoAction) <=> (legal = <<>>)
            /\ call.ret # NoAction => InSeq(call.ret, legal)

\* an agent chose among several legal actions and left one of them out
C20_Witness ==
    /\ call.op \in AgentCalls
    /\ call.ret # NoAction
    /\ LET legal == legal_actions(call.pre, call.dice)
       IN  /\ Len(legal) >= 2
           /\ InSeq(call.ret, legal)
           /\ \E k \in 1 .. Len(legal) :
                  legal[k] \notin
                      (IF call.op = "HeuristicAgent.choose_action"
                       THEN HeuristicAgent_choose_action(call.pre, call.dice,
                                                         DEFAULT_WEIGHTS)
                       ELSE ExpectimaxAgent_choose_action(
                                [DefaultConfig EXCEPT !.depth = call.depth],
                                call.pre, call.dice))

(* ---------------------------------------------------------------- *)
(* C29: Malformed configuration fails fast.  Constructing a search   *)
(* configuration with depth <= 0, or handing a die value outside     *)
(* 1..6 to GameState.set_dice, is rejected with an error.            *)
(* ---------------------------------------------------------------- *)
C29_AsStated ==
    /\ (call.op = "ExpectimaxConfig" /\ call.depth <= 0) => IsError(call.ret)
    /\ ( /\ call.op = "set_dice"
         /\ \E i \in {1, 2} : call.dice[i] \notin DieValues )
       => IsError(call.ret)

\* set_dice(7, 0) went through and the state now holds the dice (7, 0)
C29_Witness ==
    /\ call.op = "set_dice"
    /\ call.dice = <<7, 0>>
    /\ ~IsError(call.ret)
    /\ dice = <<7, 0>>

\* C30: GameState.next_turn switches current_player to the other player, adds
\* exactly 1 to turn_number and sets dice to None, and leaves points, bar,
\* borne_off and history as they were; no operation lowers turn_number.
C30_TurnAdvance ==
    [][ /\ turn_number' >= turn_number
        /\ call'.op = "next_turn" =>
              /\ current_player' = other_player(current_player)
              /\ current_player' # current_player
              /\ turn_number' = turn_number + 1
              /\ dice' = NoDice
              /\ points' = points
              /\ bar' = bar
              /\ borne_off' = borne_off
              /\ history' = history ]_vars

\* next_turn was called a second time, on a state that held dice
C30_Witness ==
    /\ call.op = "next_turn"
    /\ call.pre.dice # NoDice
    /\ call.pre.turn_number = 1
    /\ turn_number = 2
    /\ dice = NoDice

(* ---------------------------------------------------------------- *)
(* Vocabulary of the search properties                               *)
(* ---------------------------------------------------------------- *)

Elems(seq) == {seq[i] : i \in 1 .. Len(seq)}

\* the values of the loop of the call, without their indices
ValuesOf(frame) == {p[2] : p \in frame.values}

\* the position of the call with the node's side as the side to move
AsSideToMove == [Cur EXCEPT !.current_player = call.current_player]

(* ---------------------------------------------------------------- *)
(* C21: The search alternates players.  At a decision node whose     *)
(* side to move is the root player's opponent, the turns enumerated  *)
(* and applied are the opponent's legal turns for the node's dice.   *)
(* ---------------------------------------------------------------- *)
C21_AsStated ==
    ( /\ call.op = "_decision_value"
      /\ call.current_player # call.root_player )
    => Elems(call.legal) = Elems(legal_actions(AsSideToMove, call.dice))

\* an opponent's decision node enumerated the root player's turns, which are
\* not the opponent's: the position still has the root player to move
C21_Witness ==
    /\ call.op = "_decision_value"
    /\ call.current_player # call.root_player
    /\ current_player = call.root_player
    /\ call.legal # <<>>
    /\ call.legal = legal_actions(Cur, call.dice)
    /\ Elems(call.legal) \cap Elems(legal_actions(AsSideToMove, call.dice)) = {}

\* the indices of the legal actions of the call that are in ret
Returned(frame) == {k \in 1 .. Len(frame.legal) : frame.legal[k] \in frame.ret}

\* choose_action got a value for every legal action
RootChose ==
    /\ call.op = "choose_action"
    /\ call.legal # <<>>
    /\ \A v \in ValuesOf(call) : ~IsError(v)

\* what choose_action can return: legal actions, none of them with a value
\* below that of another action, and with them every action of equal value
C22_Chosen ==
    RootChose =>
        /\ call.ret # {}
        /\ call.ret \subseteq Elems(call.legal)
        /\ \A k \in Returned(call) :
              /\ \A j \in 1 .. Len(call.legal) :
                    /\ ~FGt(At(call.values, j), At(call.values, k))
                    /\ FEq(At(call.values, j), At(call.values, k))
                          => j \in Returned(call)
              /\ (\A v \in ValuesOf(call) : v # NaN) =>
                    \A j \in 1 .. Len(call.legal) :
                        \/ FGt(At(call.values, k), At(call.values, j))
                        \/ FEq(At(call.values, k), At(call.values, j))

\* the value of a legal action is what the chance node returns for the
\* position after the action, for the opponent and with depth - 1
C22_ChildValue ==
    (call.op = "choose_action" /\ call'.op = "_chance_value") =>
        /\ Cur' = apply_action(Cur, call.legal[call'.index])
        /\ call'.depth = call.config.depth - 1
        /\ call'.current_player = other_player(current_player)
        /\ call'.root_player = current_player
        /\ call'.ret = At(call.values, call'.index)

\* C22: Root selection.  choose_action returns a legal action whose chance-node
\* value (opponent to roll, depth - 1) is the maximum over the legal actions,
\* and every action of maximal value can be returned.
C22_RootSelection == []C22_Chosen /\ [][C22_ChildValue]_vars

\* three legal actions, two of them tie for the maximum and can be returned
C22_Witness ==
    /\ RootChose
    /\ Len(call.legal) > Cardinality(call.ret)
    /\ Cardinality(call.ret) >= 2
    /\ \A a \in call.ret : IsAction(a)

\* _decision_value got a value for every legal action
DecisionChose ==
    /\ call.op = "_decision_value"
    /\ call.legal # <<>>
    /\ \A v \in ValuesOf(call) : ~IsError(v)

\* a decision node returns one of its children's values: none is greater at a
\* node of the root player, none is smaller at a node of the opponent
C23_Decision ==
    DecisionChose =>
        /\ call.ret \in ValuesOf(call)
        /\ \A v \in ValuesOf(call) :
              IF call.current_player = call.root_player
              THEN /\ ~FGt(v, call.ret)
                   /\ NaN \notin ValuesOf(call) => FGt(call.ret, v) \/ v = call.ret
              ELSE /\ ~FGt(call.ret, v)
                   /\ NaN \notin ValuesOf(call) => FGt(v, call.ret) \/ v = call.ret

\* a call in its base case returns the heuristic value of its position for
\* the root player
C23_Leaf ==
    (call.op \in {"_chance_value", "_decision_value"} /\ call.base) =>
        \/ /\ evaluate_state_raises(Cur, call.root_player, call.config.weights)
           /\ IsError(call.ret)
        \/ /\ ~evaluate_state_raises(Cur, call.root_player, call.config.weights)
           /\ IsNum(call.ret)
           /\ call.ret.num
                = evaluate_board(Cur.board, call.root_player, call.config.weights)
                  * Pow36(call.depth)

\* the children of a decision node are the chance nodes of the positions after
\* its legal actions (of the same position when the turn is passed, whose
\* value is then the node's value)
C23_Child ==
    (call.op = "_decision_value" /\ call'.op = "_chance_value") =>
        /\ call'.root_player = call.root_player
        /\ IF call.legal = <<>>
           THEN Cur' = Cur /\ call'.ret = call.ret
           ELSE /\ Cur' = apply_action(Cur, call.legal[call'.index])
                /\ call'.ret = At(call.values, call'.index)

\* C23: Min/max propagation.  The value of a decision node is the maximum of
\* its children's values when the node's side is the root player and the
\* minimum when it is the opponent; leaves are scored from the root player's
\* perspective.
C23_MinMax == [](C23_Decision /\ C23_Leaf) /\ [][C23_Child]_vars

\* an opponent's node with children of different finite values returned the
\* smallest
C23_Witness ==
    /\ DecisionChose
    /\ call.current_player # call.root_player
    /\ Cardinality(ValuesOf(call)) >= 2
    /\ \A v \in ValuesOf(call) : IsNum(v) /\ v.num >= call.ret.num

\* a node of the root player below the root returned the greatest of its
\* children's different values
MaxNodeReached ==
    /\ DecisionChose
    /\ call.current_player = call.root_player
    /\ Cardinality(ValuesOf(call)) >= 2
    /\ \A v \in ValuesOf(call) : IsNum(v) /\ v.num <= call.ret.num

InSearch == call.op \in {"choose_action", "_chance_value", "_decision_value"}

\* a call below the root is in its base case exactly when its depth is used up
\* or the game has ended, and then it calls nothing; a path from the root
\* holds at most config.depth decision nodes
C24_Node ==
    InSearch =>
        /\ call.nodes <= call.config.depth
        /\ call.op # "choose_action" =>
              /\ call.base <=> (call.depth <= 0 \/ is_game_over(Cur))
              /\ call.base => call.values = {} /\ call.legal = <<>>
        /\ call.op = "_decision_value" => call.depth >= 1

\* decision -> chance takes 1 from depth, chance -> decision leaves it; only
\* a call outside its base case calls on
C24_Edge ==
    /\ ( /\ call.op \in {"choose_action", "_decision_value"}
         /\ call'.op = "_chance_value" )
       => /\ call'.depth = call.depth - 1
          /\ call'.nodes = call.nodes
    /\ (call.op = "_chance_value" /\ call'.op = "_decision_value")
       => /\ call'.depth = call.depth
          /\ call'.nodes = call.nodes + 1
    /\ (InSearch /\ call' # call) => ~call.base

\* C24: Depth convention.  depth is decremented by exactly 1 on every
\* decision -> chance edge (the root's and a forced pass included) and is
\* unchanged on chance -> decision edges; with depth N >= 1 every root-to-leaf
\* path holds at most N decision nodes; a position is evaluated when depth
\* has reached 0 or the game has ended.
C24_DepthConvention == []C24_Node /\ [][C24_Edge]_vars

\* a leaf at depth 0 under three decision nodes of a depth-3 search
C24_Witness ==
    /\ call.op = "_chance_value"
    /\ call.base
    /\ call.depth = 0
    /\ ~is_game_over(Cur)
    /\ call.config.depth = 3
    /\ call.nodes = 3

\* a forced pass took 1 from depth
PassReached ==
    /\ call.op = "_chance_value"
    /\ call.index = 0
    /\ call.depth < call.config.depth - 1

\* the k-th outcome of an outcome list stands for the ordered pair d
StandsFor(outcomes, k, d) ==
    outcomes[k][1] = d \/ outcomes[k][1] = <<d[2], d[1]>>

RECURSIVE WeightUpTo(_, _)
WeightUpTo(outcomes, n) ==
    IF n = 0 THEN 0 ELSE outcomes[n][2] + WeightUpTo(outcomes, n - 1)

\* the compressed list: 6 doubles of weight 1/36 and 15 pairs d1 < d2 of
\* weight 2/36, every roll stood for by exactly one entry, weights summing to 1
C25_Outcomes ==
    /\ Len(_symmetric_dice_outcomes) = 21
    /\ Cardinality({k \in 1 .. 21 : /\ _symmetric_dice_outcomes[k][1][1]
                                        = _symmetric_dice_outcomes[k][1][2]
                                     /\ _symmetric_dice_outcomes[k][2] = 1}) = 6
    /\ Cardinality({k \in 1 .. 21 : /\ _symmetric_dice_outcomes[k][1][1]
                                        < _symmetric_dice_outcomes[k][1][2]
                                     /\ _symmetric_dice_outcomes[k][2] = 2}) = 15
    /\ \A d \in DicePairs :
          Cardinality({k \in 1 .. 21 :
                          StandsFor(_symmetric_dice_outcomes, k, d)}) = 1
    /\ WeightUpTo(_symmetric_dice_outcomes, 21) = 36
    /\ WeightUpTo(DICE_OUTCOMES, 36) = 36

\* the configuration of the call with the other setting of use_symmetry
OtherOutcomes == [call.config EXCEPT !.use_symmetry = ~@]

\* C25: Symmetry compression is exact.  The compressed outcome list holds the
\* 6 doubles with weight 1/36 and the 15 unordered non-double pairs with
\* weight 2/36 (weights summing to 1, each pair once), and a chance node's
\* value with use_symmetry=True equals its value over the 36 ordered pairs.
C25_SymmetryExact ==
    /\ C25_Outcomes
    /\ call.op = "_chance_value" =>
          call.ret = _chance_value(OtherOutcomes, Cur, call.depth,
                                   call.current_player, call.root_player)

\* a chance node over the 21 compressed outcomes, among them a non-double whose
\* term is not 0, returned a finite value
C25_Witness ==
    /\ call.op = "_chance_value"
    /\ call.config.use_symmetry
    /\ ~call.base
    /\ IsNum(call.ret)
    /\ \E k \in 7 .. 21 : IsNum(At(call.values, k)) /\ At(call.values, k).num # 0

\* the value substituted for a dice outcome whose decision value raised
Substitute(frame) ==
    IF frame.current_player = frame.root_player THEN NegInf ELSE PosInf

\* a chance node outside its base case has a term for every outcome and
\* returns their total, never an error
C26_Node ==
    (call.op = "_chance_value" /\ ~call.base) =>
        /\ ~IsError(call.ret)
        /\ {p[1] : p \in call.values} = 1 .. Len(OutcomesWithProb(call.config))
        /\ \A v \in ValuesOf(call) : ~IsError(v)
        /\ call.ret = FSum(call.values)
        /\ (\A v \in ValuesOf(call) : IsNum(v)) => IsNum(call.ret)
        /\ Substitute(call) \in ValuesOf(call) =>
              call.ret \in {Substitute(call), NaN}

\* the term of an outcome: the substitute when the decision value raises,
\* prob * value otherwise
C26_Term ==
    (call.op = "_chance_value" /\ call'.op = "_decision_value") =>
        At(call.values, call'.index)
          = IF IsError(call'.ret) THEN Substitute(call)
            ELSE FMul(OutcomesWithProb(call.config)[call'.index][2], call'.ret)

\* C26: Failure substitution at chance nodes.  When computing the decision
\* value for one dice outcome raises, the chance node does not abort: it
\* substitutes -infinity for that outcome when the node's side is the root
\* player and +infinity otherwise, and still accumulates the probability-
\* weighted values of the remaining outcomes.
C26_FailureSubstitution == []C26_Node /\ [][C26_Term]_vars

\* a chance node of the root player got -infinity for one outcome and a number
\* for another
C26_Witness ==
    /\ call.op = "_chance_value"
    /\ call.current_player = call.root_player
    /\ NegInf \in ValuesOf(call)
    /\ \E v \in ValuesOf(call) : IsNum(v)
    /\ call.ret = NegInf

\* a chance node of the opponent got +infinity for one outcome and a number for
\* another
OpponentSubstituteReached ==
    /\ call.op = "_chance_value"
    /\ call.current_player # call.root_player
    /\ PosInf \in ValuesOf(call)
    /\ \E v \in ValuesOf(call) : IsNum(v)
    /\ call.ret = PosInf

\* C27: Failing paths are disfavoured.  If the search below one root turn
\* contains an outcome whose evaluation fails while the search below another
\* root turn has no failure and a finite value, choose_action never selects
\* the root turn with the failure.  (At depth 2 a root turn's value is a number
\* exactly when nothing failed below it: a failure below makes a decision call
\* of its chance node raise, and the term substituted is infinite.)
C27_AsStated ==
    (RootChose /\ call.config.depth = 2) =>
        \A k \in Returned(call) :
            (\E j \in 1 .. Len(call.legal) : IsNum(At(call.values, j)))
                => IsNum(At(call.values, k))

\* a depth-2 search returns only the turn below which evaluations failed
\* (value +infinity), although the other turn has a finite value
C27_Witness ==
    /\ RootChose
    /\ call.config.depth = 2
    /\ Len(call.legal) = 2
    /\ \E k \in 1 .. 2 :
          /\ call.ret = {call.legal[k]}
          /\ At(call.values, k) = PosInf
          /\ IsNum(At(call.values, 3 - k))

\* C28: Evaluation failures never escape the search.  For every configured
\* depth >= 1, state and dice pair, a failure raised while scoring a branch is
\* absorbed and does not propagate out of ExpectimaxAgent.choose_action, whose
\* only outcome other than an action is None, for no legal turn.
C28_AsStated ==
    (call.op = "choose_action" /\ call.config.depth >= 1) =>
        \A r \in call.ret :
            \/ IsAction(r) /\ r \in Elems(call.legal)
            \/ r = NoAction /\ call.legal = <<>>

\* choose_action with depth 1 raised the OverflowError of the evaluation of
\* the position after its first legal turn
C28_Witness ==
    /\ call.op = "choose_action"
    /\ call.config.depth = 1
    /\ call.legal # <<>>
    /\ At(call.values, 1) = OverflowError
    /\ call.ret = {OverflowError}

\* choose_action with depth 2 raised: the first turn ends the game and the
\* chance node below it evaluates the position in its base case
DeepEscapeReached ==
    /\ call.op = "choose_action"
    /\ call.config.depth >= 2
    /\ call.ret = {OverflowError}

\* what play_game returns: the turn number of the final state, at most
\* max_turns, and as winner a player only if that player has borne off all
\* checkers in the final state; no winner when the cap ended the match
C31_Result ==
    (call.op = "play_game" /\ call.returned) =>
        /\ call.turns_played = turn_number
        /\ call.turns_played <= call.max_turns
        /\ call.winner \in {PLAYER_1, PLAYER_2, NoPlayer}
        /\ \A p \in {PLAYER_1, PLAYER_2} :
              call.winner = p =>
                  borne_off[player_index(p)] = N_CHECKERS_PER_PLAYER
        /\ ~is_game_over(Cur) =>
              call.winner = NoPlayer /\ call.turns_played = call.max_turns

\* play_turn never raises for such agents, and while play_game has not
\* returned the loop is either entered again or left: no state is stuck
C31_Running ==
    (call.op = "play_game" /\ ~call.returned) =>
        /\ ~call.raised
        /\ turn_number <= call.max_turns \/ call.max_turns < 0
        /\ \A d \in GameRolls :
              ~IsError(play_turn(Cur, NoAction, d))

\* every iteration of the loop adds 1 to turn_number, which stays at most
\* max_turns: at most max_turns iterations are made
C31_Progress ==
    (call.op = "play_game" /\ ~call.returned /\ ~call'.returned) =>
        /\ turn_number' = turn_number + 1
        /\ turn_number' <= call.max_turns
        /\ ~call'.raised

\* C31: Match termination.  play_game with agents that always return None or
\* a legal action terminates for every max_turns >= 0, with turns_played <=
\* max_turns, and reports winner p only if player p has borne off all 15
\* checkers in the final state (None when max_turns was reached first).
\* Termination is stated by its variant: turn_number grows by 1 with every
\* iteration and is bounded by max_turns, no iteration raises, and a call
\* that has not returned can always iterate or return.
C31_MatchTermination ==
    /\ [](C31_Result /\ C31_Running)
    /\ [][C31_Progress]_vars

\* a match of two turns returned PLAYER_2 as the winner
C31_Witness ==
    /\ call.op = "play_game"
    /\ call.returned
    /\ call.winner = PLAYER_2
    /\ call.turns_played = 2
    /\ borne_off[player_index(PLAYER_2)] = N_CHECKERS_PER_PLAYER

\* a match returned without a winner because max_turns was reached
CapReached ==
    /\ call.op = "play_game"
    /\ call.returned
    /\ call.winner = NoPlayer
    /\ call.turns_played = call.max_turns
    /\ call.max_turns > 0

(* ---- C32 ---- *)

\* the record play_turn appends for the turn played on state pre
TurnRecord(pre, d, chosen) ==
    [turn |-> pre.turn_number, player |-> pre.current_player,
     dice |-> d, action |-> chosen]

\* the history has turn_number entries; entry i (counted from 0) records turn
\* i, PLAYER_1 for even i and PLAYER_2 for odd i, and a roll of the dice
C32_Log ==
    /\ Len(history) = turn_number
    /\ \A i \in 1 .. Len(history) :
          /\ history[i].turn = i - 1
          /\ history[i].player = (IF (i - 1) % 2 = 0 THEN PLAYER_1 ELSE PLAYER_2)
          /\ history[i].dice \in GameRolls
    /\ call.op = "play_turn" =>
          /\ ~call.raised
          /\ history[Len(history)] =
                 TurnRecord(call.pre, call.dice, call.chosen)

\* a call of play_turn appends one entry, the record of the turn just played
\* by the player who was to move, and leaves the earlier entries as they were
C32_Append ==
    /\ call'.dice \in GameRolls
    /\ history' = Append(history, TurnRecord(Cur, call'.dice, call'.chosen))

\* C32: append-only turn log. After any sequence of play_turn calls from
\* GameState.initial(), whether the agent moves or passes, the history has
\* exactly turn_number entries, entry i records turn i with the player who
\* was to move at turn i (alternating, PLAYER_1 first) and the dice of that
\* turn, and earlier entries are never changed or removed.
C32_AppendOnlyLog ==
    /\ []C32_Log
    /\ [][C32_Append]_vars

\* two turns are logged: a move of PLAYER_1, then a pass of PLAYER_2
C32_Witness ==
    /\ Len(history) = 2
    /\ history[1].action # NoAction
    /\ history[2].action = NoAction
    /\ history[2].player = PLAYER_2
    /\ call.op = "play_turn"

(* ---- C33 ---- *)

MoreBorneOff(board, player, n) ==
    [board EXCEPT !.borne_off[player_index(player)] = @ + n]

\* the board with n more checkers of player on the bar, all else equal
MoreOnBar(board, player, n) ==
    [board EXCEPT !.bar[player_index(player)] = @ + n]

\* C34: heuristic monotonicity under the default weights. Increasing the
\* evaluating player's borne-off count, all else equal, strictly increases
\* evaluate_board; increasing that player's bar count strictly decreases it.
C34_Monotone ==
    (call.op = "evaluate_board" /\ call.weights = DEFAULT_WEIGHTS) =>
        \A n \in 1 .. 3 :
            /\ evaluate_board(MoreBorneOff(call.pre, call.player, n),
                              call.player, call.weights) > call.ret
            /\ evaluate_board(MoreOnBar(call.pre, call.player, n),
                              call.player, call.weights) < call.ret
            /\ evaluate_board(MoreBorneOff(call.pre, call.player, n),
                              call.player, call.weights)
                 > evaluate_board(MoreBorneOff(call.pre, call.player, n - 1),
                                  call.player, call.weights)
            /\ evaluate_board(MoreOnBar(call.pre, call.player, n),
                              call.player, call.weights)
                 < evaluate_board(MoreOnBar(call.pre, call.player, n - 1),
                                  call.player, call.weights)

\* the starting position was evaluated for PLAYER_2 under the default weights
C34_Witness ==
    /\ call.op = "evaluate_board"
    /\ call.weights = DEFAULT_WEIGHTS
    /\ call.player = PLAYER_2
    /\ call.pre = BoardInitial
    /\ evaluate_board(MoreBorneOff(BoardInitial, PLAYER_2, 3), PLAYER_2,
                      DEFAULT_WEIGHTS) = call.ret + 6 * ValueScale

(* ---- C35 ---- *)

\* what is left to travel from point i: i + 1 for PLAYER_1, 24 - i for
\* PLAYER_2
TrueDistance(player, i) == IF player = PLAYER_1 THEN i + 1 ELSE N_POINTS - i

RECURSIVE TruePips(_, _, _)
\* the distances of the checkers of player on the points 0 .. n, added up
TruePips(board, player, n) ==
    IF n < 0 THEN 0
    ELSE OwnAt(board, player, n) * TrueDistance(player, n)
         + TruePips(board, player, n - 1)

\* the pip distance and the home made points are those of the evaluating
\* player, whichever side that is
C35_Features ==
    call.op = "evaluate_board" =>
        /\ call.weights = PIP_WEIGHTS =>
              call.ret = ValueScale
                  * (TruePips(call.pre, call.player, N_POINTS - 1)
                     + 25 * call.pre.bar[player_index(call.player)])
        /\ call.weights = HOME_WEIGHTS =>
              call.ret = ValueScale
                  * Cardinality({i \in home_board_range(call.player) :
                                    OwnAt(call.pre, call.player, i) >= 2})

\* on the starting position both players get the same score
C35_Symmetric ==
    (call.op = "evaluate_board" /\ call.pre = BoardInitial) =>
        call.ret = evaluate_board(BoardInitial, other_player(call.player),
                                  call.weights)

\* C35: perspective-agnostic features. The pip distance counts each own
\* checker at its true remaining distance (index + 1 for PLAYER_1, 24 - index
\* for PLAYER_2) plus 25 per own checker on the bar, the home made points are
\* counted on the player's own home range, and evaluate_board gives both
\* players the same score on the symmetric starting position.
C35_PerspectiveAgnostic == C35_Features /\ C35_Symmetric

\* PLAYER_2's pip distance was measured with a checker on point 1 and one on
\* the bar: 23 + 25 pips
C35_Witness ==
    /\ call.op = "evaluate_board"
    /\ call.player = PLAYER_2
    /\ call.weights = PIP_WEIGHTS
    /\ call.pre.points[1] = -1
    /\ call.pre.bar[player_index(PLAYER_2)] = 1
    /\ call.ret = ValueScale * 48

\* PLAYER_2's made point on 18 was counted as a home made point
HomeMadePointCounted ==
    /\ call.op = "evaluate_board"
    /\ call.player = PLAYER_2
    /\ call.weights = HOME_WEIGHTS
    /\ call.pre.points[18] = -2
    /\ call.ret = ValueScale

\* the starting position was evaluated
StartEvaluated ==
    /\ call.op = "evaluate_board"
    /\ call.pre = BoardInitial
    /\ call.weights = DEFAULT_WEIGHTS

(* ---- C36 ---- *)

RECURSIVE PlayableSequences(_, _)
\* the step sequences obtainable from state by playing die instances of ds in
\* any order, each step one that single_die_moves offers in the position
\* reached; the sequences that stop early are among them (of equal die
\* instances the first is played: the others give the same sequences)
PlayableSequences(state, ds) ==
    {<<>>} \union UNION {
        LET moves == single_die_moves(state, ds[i])
        IN  UNION {
              {<<moves[k]>> \o rest :
                  rest \in PlayableSequences(apply_step(state, moves[k]),
                                             RemoveAt(ds, i))} :
              k \in 1 .. Len(moves)} :
        i \in {i \in 1 .. Len(ds) : \A j \in 1 .. (i - 1) : ds[j] # ds[i]}}

\* the longest of a set of sequences
Longest(seqs) == {s \in seqs : \A t \in seqs : Len(t) <= Len(s)}

\* the step sequences of the actions of a list
StepsOf(actions) == {actions[i].steps : i \in 1 .. Len(actions)}

\* C36: enumeration completeness. When the longest playable sequence has two
\* or more steps, or the roll is a double, legal_actions returns exactly the
\* distinct longest step sequences obtainable by playing the dice instances
\* in any order, each step a single_die_moves result in the position reached;
\* no preference for the higher die or for an order of the dice removes any.
C36_Complete ==
    call.op = "legal_actions" =>
        \A best \in {Longest(PlayableSequences(Cur, DiceToPlay(call.dice)))} :
            \A m \in {Len(s) : s \in best} :
                (m >= 2 \/ (call.dice[1] = call.dice[2] /\ m >= 1)) =>
                    /\ StepsOf(call.ret) = best
                    /\ Len(call.ret) = Cardinality(best)

\* dice (6,1) with two checkers to move: sequences that play the 1 first and
\* sequences that play the 6 first are both returned
C36_Witness ==
    /\ call.op = "legal_actions"
    /\ call.dice = <<6, 1>>
    /\ MaxPlayable(Cur, call.dice) = 2
    /\ \A i \in 1 .. Len(call.ret) :
          /\ call.ret[i].steps[1].from_point # None
          /\ call.ret[i].steps[1].to_point # None
    /\ \E i, j \in 1 .. Len(call.ret) :
          /\ Abs(call.ret[i].steps[1].from_point
                 - call.ret[i].steps[1].to_point) = 1
          /\ Abs(call.ret[j].steps[1].from_point
                 - call.ret[j].steps[1].to_point) = 6

(* ---- C37 ---- *)

Lower(d) == IF d[1] < d[2] THEN d[1] ELSE d[2]

\* C37: higher-die fallback. On a non-double roll of which one die at most
\* can be played, when no step can be played with the larger die,
\* legal_actions returns every distinct single step that can be played with
\* the smaller die: the list is not empty and nothing is filtered out.
C37_Fallback ==
    ( /\ call.op = "legal_actions"
      /\ call.dice[1] # call.dice[2]
      /\ MaxPlayable(Cur, call.dice) = 1
      /\ single_die_moves(Cur, Higher(call.dice)) = <<>> )
    => /\ call.ret # <<>>
       /\ StepsOf(call.ret)
            = {<<s>> : s \in Elems(single_die_moves(Cur, Lower(call.dice)))}

\* the larger die cannot be played, two checkers can play the smaller one
\* and no second step follows
C37_Witness ==
    /\ call.op = "legal_actions"
    /\ call.dice[1] # call.dice[2]
    /\ MaxPlayable(Cur, call.dice) = 1
    /\ single_die_moves(Cur, Higher(call.dice)) = <<>>
    /\ Len(call.ret) >= 2

(* ---- C38 ---- *)

\* both players have all their checkers borne off
Both15 == \A p \in Players : borne_off[player_index(p)] >= N_CHECKERS_PER_PLAYER

\* bar and borne_off counts are within 0 .. 15
C38_Ranges ==
    \A i \in {0, 1} :
        /\ bar[i] \in 0 .. N_CHECKERS_PER_PLAYER
        /\ borne_off[i] \in 0 .. N_CHECKERS_PER_PLAYER

\* winner() is a player exactly when one player, and not both, has 15 borne
\* off
C38_Winner ==
    winner(Cur) \in Players <=> (is_game_over(Cur) /\ ~Both15)

\* no turn lowers a borne_off count, and a turn played while the game is not
\* over does not end it for both players
C38_Turn ==
    /\ \A i \in {0, 1} : borne_off'[i] >= borne_off[i]
    /\ ~is_game_over(Cur) => ~Both15'

RECURSIVE TupleOnPointsUpTo(_, _, _)
\* checkers of player on the points 0 .. n of a tuple board
TupleOnPointsUpTo(board, player, n) ==
    IF n < 0 THEN 0
    ELSE (IF board.points[n][1] = player THEN board.points[n][2] ELSE 0)
         + TupleOnPointsUpTo(board, player, n - 1)

\* checkers of player on points + on the bar + borne off
TupleCheckers(board, player) ==
    TupleOnPointsUpTo(board, player, 23) + board.bar[player]
    + board.borne_off[player]

\* checkers of player on point i of a tuple board
TupleOwnAt(board, player, i) ==
    IF board.points[i][1] = player THEN board.points[i][2] ELSE 0

\* the call applied a move that legal_moves_for_die returned for its board
Generated ==
    /\ call.op = "apply_move_in_place"
    /\ call.die \in DieValues
    /\ InSeq(call.move, legal_moves_for_die(call.pre, call.player, call.die))

\* C39: tuple-board variant (moves.py). For every board, player and die,
\* applying with apply_move_in_place a move that legal_moves_for_die returned
\* never raises; it moves exactly one checker of the player (origin point or
\* bar one less, destination point or borne_off one more), a hit sends
\* exactly one opposing checker to the bar, and every player's total of
\* points + bar + borne_off is preserved.
C39_GeneratedMoveApplies ==
    Generated =>
        LET me == call.player
            opp == _opponent(call.player)
            m == call.move
            old == call.pre
            new == TupleCur
            others == (0 .. 23) \ {m.from_point, m.to_point}
        IN  /\ ~call.raised
            /\ IF m.from_point = BAR
               THEN new.bar[me] = old.bar[me] - 1
               ELSE /\ new.bar[me] = old.bar[me]
                    /\ TupleOwnAt(new, me, m.from_point)
                         = TupleOwnAt(old, me, m.from_point) - 1
            /\ IF m.to_point = BEAR_OFF
               THEN new.borne_off[me] = old.borne_off[me] + 1
               ELSE /\ new.borne_off[me] = old.borne_off[me]
                    /\ TupleOwnAt(new, me, m.to_point)
                         = TupleOwnAt(old, me, m.to_point) + 1
            /\ \A i \in others : new.points[i] = old.points[i]
            /\ new.borne_off[opp] = old.borne_off[opp]
            /\ IF m.hit
               THEN /\ new.bar[opp] = old.bar[opp] + 1
                    /\ TupleOwnAt(old, opp, m.to_point) = 1
                    /\ TupleOwnAt(new, opp, m.to_point) = 0
               ELSE /\ new.bar[opp] = old.bar[opp]
                    /\ m.to_point # BEAR_OFF =>
                          TupleOwnAt(old, opp, m.to_point) = 0
            /\ \A p \in TuplePlayers :
                  TupleCheckers(new, p) = TupleCheckers(old, p)

\* O entered from the bar onto a blot of X and sent it to the bar
C39_Witness ==
    /\ Generated
    /\ call.player = "O"
    /\ call.move.from_point = BAR
    /\ call.move.hit
    /\ bar["X"] = call.pre.bar["X"] + 1
    /\ ~call.raised

\* a generated bear-off was applied
BearOffApplied ==
    /\ Generated
    /\ call.move.to_point = BEAR_OFF
    /\ borne_off[call.player] = call.pre.borne_off[call.player] + 1

(* ---- C40 ---- *)

\* C40: tuple-board variant (moves.py), error atomicity. Whenever
\* apply_move_in_place raises ValueError (origin not owned, empty bar, move
\* marked as hit but the destination is not a single opposing checker, or
\* destination blocked by the opponent), the board's points, bar and
\* borne_off are the same as before the call.
C40_AsStated ==
    (call.op = "apply_move_in_place" /\ call.raised) => TupleCur = call.pre

\* the ValueError for a blocked destination was raised after the checker had
\* been taken from its origin: X has one checker less and nobody one more
C40_Witness ==
    /\ call.op = "apply_move_in_place"
    /\ call.raised
    /\ call.player = "X"
    /\ call.move = Move(0, 3, FALSE)
    /\ call.pre.points[0] = <<"X", 1>>
    /\ call.pre.points[3] = <<"O", 2>>
    /\ points[0] = EmptyPoint
    /\ TupleCheckers(TupleCur, "X") = TupleCheckers(call.pre, "X") - 1

\* the ValueError for a missing origin checker leaves the board as it was
OriginErrorAtomic ==
    (/\ call.op = "apply_move_in_place"
     /\ RemoveFromOrigin(call.pre, call.player, call.move).raised)
    => (call.raised /\ TupleCur = call.pre)

====
